---- MODULE Spec2Model ----
(***************************************************************************)
(* Batched multi-proof verifier (MultiVerifier) of the Sonic "helped"      *)
(* protocol, src/src/sonic/helped/verifier.rs, as a state machine (Spec),  *)
(* and the signed REST requests of the ceremony coordinator,               *)
(* src/phase1-coordinator/src/rest.rs: the coordinator's own endpoints     *)
(* (RestSpec) and the contributors' endpoints (ContributorSpec).           *)
(*                                                                         *)
(* The verifier owns a circuit, a Batch and the preprocessing results      *)
(* (k_map, n, q).  Field elements are residues modulo FieldSize, group     *)
(* elements are small naturals, the Fiat-Shamir transcript is the sequence *)
(* of its events and a challenge is a deterministic digest of that         *)
(* sequence.  The Batch is the sequence of the registrations made on it.   *)
(***************************************************************************)
EXTENDS Integers, Sequences, FiniteSets, TLC

VARIABLES
    circuit,    \* the circuit handed to MultiVerifier::new
    status,     \* "init" | "live" | "failed" | "aborted" | "consumed"
    batch,      \* the Batch: sequence of registrations, in call order
    k_map,      \* preprocessing result: k-power indices in discovery order
    n,          \* preprocessing result: number of multiplication gates
    q,          \* preprocessing result: number of linear constraints
    batch_n,    \* the n the Batch was sized with
    passes,     \* synthesis passes the circuit has been asked for so far
    calls,      \* the calls made on the verifier so far, <<op, args>> each
    last,       \* what the last call did (transcripts, challenges, ...)
    verdict,    \* result of check_all: "none" | TRUE | FALSE
    checks      \* number of check_all invocations so far

\* The REST front end of the ceremony coordinator,
\* src/phase1-coordinator/src/rest.rs
VARIABLES
    environment,  \* the coordinator's environment: coordinator_verifiers
    coordinator,  \* the managed Coordinator behind the RwLock
    server,       \* the Rocket server: "running" | "shutdown"
    response,     \* what the last try_sign or handler did and answered
    in_flight     \* the handler that waits for the coordinator lock again

verifierVars == <<circuit, status, batch, k_map, n, q, batch_n, passes, calls,
                  last, verdict, checks>>

restVars == <<environment, coordinator, server, response, in_flight>>

vars == <<circuit, status, batch, k_map, n, q, batch_n, passes, calls,
          last, verdict, checks, environment, coordinator, server, response,
          in_flight>>

-----------------------------------------------------------------------------
(* Bounds of the model *)

FieldSize == 5
NumPoints == 2
MaxPending == 8
MaxInputs == 2
MaxAggProofs == 2
NumProofs == 3

Fr == 0 .. (FieldSize - 1)
Points == 0 .. (NumPoints - 1)

Min(a, b) == IF a <= b THEN a ELSE b

-----------------------------------------------------------------------------
(* Field arithmetic (E::Fr) *)

FAdd(a, b) == (a + b) % FieldSize
FSub(a, b) == (a - b) % FieldSize
FMul(a, b) == (a * b) % FieldSize

RECURSIVE FPow(_, _)
FPow(a, e) == IF e = 0 THEN 1 % FieldSize ELSE FMul(a, FPow(a, e - 1))

-----------------------------------------------------------------------------
(* Transcript: the sequence of its events.  <<"pt", P>> and <<"sc", s>> are *)
(* absorbed group and field elements, <<"ch">> is a challenge drawn.        *)

Transcript_new == << >>

commit_point(tr, P) == Append(tr, <<"pt", P>>)

commit_scalar(tr, s) == Append(tr, <<"sc", s>>)

EventCode(e) ==
    IF e[1] = "ch" THEN 1
    ELSE IF e[1] = "pt" THEN 2 + e[2]
    ELSE 2 + NumPoints + e[2]

RECURSIVE Digest(_)
Digest(tr) ==
    IF tr = << >> THEN 2 % FieldSize
    ELSE LET h == Digest(SubSeq(tr, 1, Len(tr) - 1))
         IN  (3 * h + h * h + EventCode(tr[Len(tr)])) % FieldSize

\* get_challenge_scalar: the value drawn from state tr, and the state after
Challenge(tr) == Digest(tr)

Squeeze(tr) == Append(tr, <<"ch">>)

-----------------------------------------------------------------------------
(* Batch: registrations *)

add_opening(b, p, r, point) == Append(b, <<"opening", p, r, point>>)

add_commitment(b, c, r) == Append(b, <<"commitment", c, r>>)

add_commitment_max_n(b, c, r) == Append(b, <<"commitment_max_n", c, r>>)

add_opening_value(b, v, r) == Append(b, <<"value", v, r>>)

-----------------------------------------------------------------------------
(* Circuits.  A circuit is the sequence of events one synthesis pass        *)
(* delivers to the backend, and the pass number from which its synthesis    *)
(* reports an error (0: never).                                             *)
(*   <<"k", i>>         new_k_power(i)                                      *)
(*   <<"gate">>         new_multiplication_gate()                           *)
(*   <<"lc">>           new_linear_constraint()                             *)
(*   <<"coeff", i, c>>  a term of a linear constraint: coefficient c on     *)
(*                      wire i                                              *)

CircuitA ==
    [events |-> << <<"lc">>, <<"k", 1>>, <<"coeff", 1, 1>>, <<"gate">>,
                   <<"lc">>, <<"k", 2>>, <<"coeff", 1, 2>> >>,
     failFrom |-> 0]

CircuitB ==
    [events |-> << <<"gate">>, <<"gate">>, <<"lc">>, <<"k", 3>>,
                   <<"coeff", 2, 1>>, <<"lc">>, <<"coeff", 1, 3>>,
                   <<"lc">>, <<"coeff", 2, 2>> >>,
     failFrom |-> 0]

\* malformed wiring: every synthesis pass reports an error
CircuitBad == [CircuitA EXCEPT !.failFrom = 1]

\* behaves differently across passes: fine once, an error afterwards
CircuitFlaky == [CircuitA EXCEPT !.failFrom = 2]

Circuits == {CircuitA, CircuitB, CircuitBad, CircuitFlaky}

\* S::synthesize returns Err on this pass
SynthesisFails(c, pass) == c.failFrom # 0 /\ pass >= c.failFrom

\* a backend that puts each new k-power index in front of the earlier ones
RECURSIVE Preprocess_k_front(_)
Preprocess_k_front(ev) ==
    IF ev = << >> THEN [k_map |-> << >>, n |-> 0, q |-> 0]
    ELSE LET pre == Preprocess_k_front(SubSeq(ev, 1, Len(ev) - 1))
             e == ev[Len(ev)]
         IN  IF e[1] = "k" THEN [pre EXCEPT !.k_map = <<e[2]>> \o @]
             ELSE IF e[1] = "gate" THEN [pre EXCEPT !.n = @ + 1]
             ELSE IF e[1] = "lc" THEN [pre EXCEPT !.q = @ + 1]
             ELSE pre

\* Preprocess backend: counts the structural events of one pass
RECURSIVE Preprocess(_)
Preprocess(ev) ==
    IF ev = << >> THEN [k_map |-> << >>, n |-> 0, q |-> 0]
    ELSE LET pre == Preprocess(SubSeq(ev, 1, Len(ev) - 1))
             e == ev[Len(ev)]
         IN  IF e[1] = "k" THEN [pre EXCEPT !.k_map = Append(@, e[2])]
             ELSE IF e[1] = "gate" THEN [pre EXCEPT !.n = @ + 1]
             ELSE IF e[1] = "lc" THEN [pre EXCEPT !.q = @ + 1]
             ELSE pre

\* SxEval::new(y, n): the fixed coordinate, the running power y^(q+n), and
\* the accumulated terms <<wire, coefficient>>
SxEval_new(y, nn) == [y |-> y, yqn |-> FPow(y, nn), acc |-> << >>]

\* SxEval as the backend of one synthesis pass
RECURSIVE SxEval_synthesize(_, _)
SxEval_synthesize(tmp, ev) ==
    IF ev = << >> THEN tmp
    ELSE LET t == SxEval_synthesize(tmp, SubSeq(ev, 1, Len(ev) - 1))
             e == ev[Len(ev)]
         IN  IF e[1] = "lc" THEN [t EXCEPT !.yqn = FMul(@, t.y)]
             ELSE IF e[1] = "coeff"
                  THEN [t EXCEPT !.acc = Append(@, <<e[2], FMul(e[3], t.yqn)>>)]
             ELSE t

\* SxEval::finalize(x): folds the free coordinate in
RECURSIVE SumTerms(_, _)
SumTerms(acc, x) ==
    IF acc = << >> THEN 0
    ELSE FAdd(SumTerms(Tail(acc), x), FMul(acc[1][2], FPow(x, acc[1][1])))

SxEval_finalize(tmp, x) == SumTerms(tmp.acc, x)

-----------------------------------------------------------------------------
(* Inputs of the calls *)

\* the sxy closure of add_proof: answers Some(val) or None
SxyNone == [tag |-> "None"]
SxySome(v) == [tag |-> "Some", val |-> v]

-----------------------------------------------------------------------------
(* add_proof *)

\* proof.t absorbed together with proof.r, before y is drawn
proof_transcript_late_y(t0, proof) ==
    LET t1 == commit_point(commit_point(t0, proof.r), proof.t)
        y == Challenge(t1)
        t2 == Squeeze(t1)
        z == Challenge(t2)
        t3 == commit_scalar(commit_scalar(Squeeze(t2), proof.rz), proof.rzy)
        r1 == Challenge(t3)
        t4 == commit_point(commit_point(Squeeze(t3), proof.z_opening),
                           proof.zy_opening)
        c1 == Challenge(t4)
        t5 == Squeeze(t4)
        c2 == Challenge(t5)
    IN  [y |-> y, z |-> z, r1 |-> r1, c1 |-> c1, c2 |-> c2,
         draws |-> << [who |-> "y", state |-> t1],
                      [who |-> "z", state |-> t2],
                      [who |-> "r1", state |-> t3],
                      [who |-> "c1", state |-> t4],
                      [who |-> "c2", state |-> t5] >>,
         transcript |-> Squeeze(t5)]

\* the transcript of one add_proof call, from its initial state t0: the
\* challenges, the state each was drawn from, and the final state
proof_transcript(t0, proof) ==
    LET t1 == commit_point(t0, proof.r)
        y == Challenge(t1)
        t2 == commit_point(Squeeze(t1), proof.t)
        z == Challenge(t2)
        t3 == commit_scalar(commit_scalar(Squeeze(t2), proof.rz), proof.rzy)
        r1 == Challenge(t3)
        t4 == commit_point(commit_point(Squeeze(t3), proof.z_opening),
                           proof.zy_opening)
        c1 == Challenge(t4)
        t5 == Squeeze(t4)
        c2 == Challenge(t5)
    IN  [y |-> y, z |-> z, r1 |-> r1, c1 |-> c1, c2 |-> c2,
         draws |-> << [who |-> "y", state |-> t1],
                      [who |-> "z", state |-> t2],
                      [who |-> "r1", state |-> t3],
                      [who |-> "c1", state |-> t4],
                      [who |-> "c2", state |-> t5] >>,
         transcript |-> Squeeze(t5)]

\* a transcript that outlives the call: the next call goes on from it
add_proof_transcript_reused(proof) ==
    proof_transcript(
        IF last.op \in {"add_proof", "add_proof_with_advice", "add_aggregate"}
           /\ ~last.out.aborted
        THEN last.out.transcript ELSE Transcript_new,
        proof)

\* add_proof starts from a new, empty transcript
add_proof_transcript(proof) == proof_transcript(Transcript_new, proof)

\* first claim: proof.r opened at zy with proof.zy_opening and proof.rzy
first_claim(b, proof, random, z, y) ==
    LET zy == FMul(z, y)
        b1 == add_opening(b, proof.zy_opening, random, zy)
        b2 == add_commitment_max_n(b1, proof.r, random)
    IN  add_opening_value(b2, proof.rzy, random)

\* the exponents taken without the shift by n
RECURSIVE k_y_unshifted(_, _, _)
k_y_unshifted(y, kmap, ins) ==
    IF kmap = << >> \/ ins = << >> THEN 0
    ELSE FAdd(FMul(FPow(y, kmap[1]), ins[1]),
              k_y_unshifted(y, Tail(kmap), Tail(ins)))

\* k(y) running over all the inputs, those beyond the k_map taken with
\* exponent n
RECURSIVE k_y_keeps_surplus(_, _, _)
k_y_keeps_surplus(y, kmap, ins) ==
    IF ins = << >> THEN 0
    ELSE FAdd(FMul(FPow(y, (IF kmap = << >> THEN 0 ELSE kmap[1]) + n),
                   ins[1]),
              k_y_keeps_surplus(y, IF kmap = << >> THEN kmap ELSE Tail(kmap),
                                Tail(ins)))

\* k(y): the k_map paired with the constant one followed by the inputs
RECURSIVE k_y(_, _, _)
k_y(y, kmap, ins) ==
    IF kmap = << >> \/ ins = << >> THEN 0
    ELSE FAdd(FMul(FPow(y, kmap[1] + n), ins[1]),
              k_y(y, Tail(kmap), Tail(ins)))

\* the evaluator replayed whether or not the closure answers
s_zy_eager(sxy, z, y) ==
    IF SynthesisFails(circuit, passes + 1)
    THEN [ok |-> FALSE, val |-> 0, synth |-> 1]
    ELSE [ok |-> TRUE,
          val |-> IF sxy.tag = "Some" THEN sxy.val
                  ELSE SxEval_finalize(
                           SxEval_synthesize(SxEval_new(y, n), circuit.events),
                           z),
          synth |-> 1]

\* s(z, y): the closure's answer, or else the evaluator replayed over the
\* circuit; ok is FALSE when the replay's unwrap panics
s_zy(sxy, z, y) ==
    IF sxy.tag = "Some"
    THEN [ok |-> TRUE, val |-> sxy.val, synth |-> 0]
    ELSE IF SynthesisFails(circuit, passes + 1)
         THEN [ok |-> FALSE, val |-> 0, synth |-> 1]
         ELSE [ok |-> TRUE,
               val |-> SxEval_finalize(
                           SxEval_synthesize(SxEval_new(y, n), circuit.events), z),
               synth |-> 1]

\* proof.rz and proof.rzy taken for each other
t_zy_swapped(proof, szy, ky) ==
    FSub(FMul(FAdd(proof.rz, szy), proof.rzy), ky)

\* t(z, y)
t_zy(proof, szy, ky) == FSub(FMul(FAdd(proof.rzy, szy), proof.rz), ky)

\* proof.r registered the second time as a full-degree commitment
second_claim_full_degree(b, proof, tzy, random, r1, z) ==
    LET b1 == add_opening(b, proof.z_opening, random, z)
        b2 == add_opening_value(b1, tzy, random)
        b3 == add_commitment(b2, proof.t, random)
        scaled == FMul(random, r1)
        b4 == add_opening_value(b3, proof.rz, scaled)
    IN  add_commitment(b4, proof.r, scaled)

\* second and third claim, kept linearly independent with r1
second_claim(b, proof, tzy, random, r1, z) ==
    LET b1 == add_opening(b, proof.z_opening, random, z)
        b2 == add_opening_value(b1, tzy, random)
        b3 == add_commitment(b2, proof.t, random)
        scaled == FMul(random, r1)
        b4 == add_opening_value(b3, proof.rz, scaled)
    IN  add_commitment_max_n(b4, proof.r, scaled)

\* an add_proof call that evaluates s(z, y) before it registers anything
add_proof_evaluates_first(b, proof, inputs, sxy) ==
    LET tr == add_proof_transcript(proof)
        b1 == first_claim(b, proof, tr.c1, tr.z, tr.y)
        ky == k_y(tr.y, k_map, <<1 % FieldSize>> \o inputs)
        s == s_zy(sxy, tr.z, tr.y)
        tzy == t_zy(proof, s.val, ky)
    IN  [batch |-> IF s.ok
                   THEN second_claim(b1, proof, tzy, tr.c2, tr.r1, tr.z)
                   ELSE b,
         aborted |-> ~s.ok,
         synth |-> s.synth,
         sxy_args |-> << <<tr.z, tr.y>> >>,
         sxy_at |-> [regs |-> Len(b1) - Len(b),
                     transcript |-> Squeeze(tr.draws[4].state)],
         ky |-> ky,
         szy |-> s.val,
         tzy |-> tzy,
         y |-> tr.y, z |-> tr.z, r1 |-> tr.r1, c1 |-> tr.c1, c2 |-> tr.c2,
         draws |-> IF s.ok THEN tr.draws ELSE SubSeq(tr.draws, 1, 4),
         transcript |-> IF s.ok THEN tr.transcript
                        ELSE SubSeq(tr.transcript, 1, Len(tr.transcript) - 1)]

\* one add_proof call on Batch b
add_proof(b, proof, inputs, sxy) ==
    LET tr == add_proof_transcript(proof)
        b1 == first_claim(b, proof, tr.c1, tr.z, tr.y)
        ky == k_y(tr.y, k_map, <<1 % FieldSize>> \o inputs)
        s == s_zy(sxy, tr.z, tr.y)
        tzy == t_zy(proof, s.val, ky)
    IN  [batch |-> IF s.ok
                   THEN second_claim(b1, proof, tzy, tr.c2, tr.r1, tr.z)
                   ELSE b1,
         aborted |-> ~s.ok,
         synth |-> s.synth,
         sxy_args |-> << <<tr.z, tr.y>> >>,
         sxy_at |-> [regs |-> Len(b1) - Len(b),
                     transcript |-> Squeeze(tr.draws[4].state)],
         ky |-> ky,
         szy |-> s.val,
         tzy |-> tzy,
         y |-> tr.y, z |-> tr.z, r1 |-> tr.r1, c1 |-> tr.c1, c2 |-> tr.c2,
         draws |-> IF s.ok THEN tr.draws ELSE SubSeq(tr.draws, 1, 4),
         transcript |-> IF s.ok THEN tr.transcript
                        ELSE SubSeq(tr.transcript, 1, Len(tr.transcript) - 1)]

-----------------------------------------------------------------------------
(* add_proof_with_advice *)

\* a closure that keeps z and leaves the value to the evaluator
advice_closure_none(advice) == SxyNone

\* the closure handed to add_proof: keeps z, answers Some(advice.szy)
advice_closure(advice) == SxySome(advice.szy)

\* the point of the advice claim taken from the closure's second argument
add_proof_with_advice_keeps_y(b, proof, inputs, advice) ==
    LET res == add_proof(b, proof, inputs, advice_closure(advice))
        captured == res.sxy_args
        z == captured[1][2]
        t1 == commit_scalar(
                  commit_point(commit_point(Transcript_new, advice.opening),
                               advice.s),
                  advice.szy)
        random == Challenge(t1)
        b1 == add_opening(res.batch, advice.opening, random, z)
        b2 == add_commitment(b1, advice.s, random)
        b3 == add_opening_value(b2, advice.szy, random)
    IN  IF res.aborted \/ captured = << >>
        THEN [res EXCEPT !.aborted = TRUE]
        ELSE [advice_transcript |-> Squeeze(t1), captured_z |-> z] @@
             [res EXCEPT !.batch = b3,
                         !.draws = Append(@, [who |-> "advice", state |-> t1])]

\* one add_proof_with_advice call on Batch b: add_proof with the closure,
\* then the advice claim at the z the closure was handed
add_proof_with_advice(b, proof, inputs, advice) ==
    LET res == add_proof(b, proof, inputs, advice_closure(advice))
        captured == res.sxy_args
        z == captured[1][1]
        t1 == commit_scalar(
                  commit_point(commit_point(Transcript_new, advice.opening),
                               advice.s),
                  advice.szy)
        random == Challenge(t1)
        b1 == add_opening(res.batch, advice.opening, random, z)
        b2 == add_commitment(b1, advice.s, random)
        b3 == add_opening_value(b2, advice.szy, random)
    IN  IF res.aborted \/ captured = << >>
        THEN [res EXCEPT !.aborted = TRUE]
        ELSE [advice_transcript |-> Squeeze(t1), captured_z |-> z] @@
             [res EXCEPT !.batch = b3,
                         !.draws = Append(@, [who |-> "advice", state |-> t1])]

-----------------------------------------------------------------------------
(* add_aggregate *)

\* y of one proof: a transcript of its own that absorbed proof.r
aggregate_y_state(proof) == commit_point(Transcript_new, proof.r)

\* a loop that absorbs proof.r into the running transcript as well
RECURSIVE aggregate_absorb_with_r(_, _)
aggregate_absorb_with_r(tr, proofs) ==
    IF proofs = << >> THEN tr
    ELSE aggregate_absorb_with_r(
             commit_point(commit_point(tr, proofs[1][1].r), proofs[1][2].s),
             Tail(proofs))

\* the running transcript after the loop over the proofs
RECURSIVE aggregate_absorb(_, _)
aggregate_absorb(tr, proofs) ==
    IF proofs = << >> THEN tr
    ELSE aggregate_absorb(commit_point(tr, proofs[1][2].s), Tail(proofs))

\* aggregate.c absorbed before the loop, so that z already depends on it
aggregate_transcript_early_c(proofs, aggregate) ==
    LET tz == aggregate_absorb(commit_point(Transcript_new, aggregate.c),
                               proofs)
        tw == Squeeze(tz)
    IN  [y_values |-> [i \in 1 .. Len(proofs) |->
                          Challenge(aggregate_y_state(proofs[i][1]))],
         tz |-> tz, z |-> Challenge(tz),
         tw |-> tw, w |-> Challenge(tw),
         after |-> Squeeze(tw)]

\* the running transcript when z is drawn, when w is drawn, and after w
aggregate_transcript(proofs, aggregate) ==
    LET tz == aggregate_absorb(Transcript_new, proofs)
        tw == commit_point(Squeeze(tz), aggregate.c)
    IN  [y_values |-> [i \in 1 .. Len(proofs) |->
                          Challenge(aggregate_y_state(proofs[i][1]))],
         tz |-> tz, z |-> Challenge(tz),
         tw |-> tw, w |-> Challenge(tw),
         after |-> Squeeze(tw)]

\* szw: the evaluator replayed over the circuit; ok is FALSE when the
\* unwrap panics
s_zw(z, w) ==
    IF SynthesisFails(circuit, passes + 1)
    THEN [ok |-> FALSE, val |-> 0, synth |-> 1]
    ELSE [ok |-> TRUE,
          val |-> SxEval_finalize(
                      SxEval_synthesize(SxEval_new(w, n), circuit.events), z),
          synth |-> 1]

\* transcript.clone(): an independent branch with the same history; what is
\* drawn from the clone leaves the running transcript where it was
Transcript_clone(tr) == tr

\* the claim on aggregate.opening
aggregate_opening_claim(b, aggregate, tr, szw, w) ==
    LET random == Challenge(Transcript_clone(tr))
        b1 == add_opening(b, aggregate.opening, random, w)
        b2 == add_commitment(b1, aggregate.c, random)
    IN  add_opening_value(b2, szw, random)

\* the c_openings claims relying on the one registration of aggregate.c made
\* by the claim on aggregate.opening
RECURSIVE c_openings_claims_c_once(_, _, _, _, _)
c_openings_claims_c_once(b, aggregate, tr, c_openings, y_values) ==
    IF c_openings = << >> \/ y_values = << >> THEN b
    ELSE LET random == Challenge(Transcript_clone(tr))
             b1 == add_opening(b, c_openings[1][1], random, y_values[1])
             b3 == add_opening_value(b1, c_openings[1][2], random)
         IN  c_openings_claims_c_once(b3, aggregate, tr, Tail(c_openings),
                                      Tail(y_values))

\* the claims on aggregate.c_openings zipped with the y values
RECURSIVE c_openings_claims(_, _, _, _, _)
c_openings_claims(b, aggregate, tr, c_openings, y_values) ==
    IF c_openings = << >> \/ y_values = << >> THEN b
    ELSE LET random == Challenge(Transcript_clone(tr))
             b1 == add_opening(b, c_openings[1][1], random, y_values[1])
             b2 == add_commitment(b1, aggregate.c, random)
             b3 == add_opening_value(b2, c_openings[1][2], random)
         IN  c_openings_claims(b3, aggregate, tr, Tail(c_openings),
                               Tail(y_values))

\* the closing loop folding each proof's own advice value
RECURSIVE closing_loop_advice_szy(_, _, _, _)
closing_loop_advice_szy(st, proofs, c_openings, random) ==
    IF proofs = << >> \/ c_openings = << >> THEN st
    ELSE LET r == Challenge(st.tr)
             tmp == FMul(proofs[1][2].szy, r)
         IN  closing_loop_advice_szy(
                 [batch |-> add_commitment(st.batch, proofs[1][2].s,
                                           FMul(r, random)),
                  tr |-> Squeeze(st.tr),
                  expected_value |-> FAdd(st.expected_value, tmp),
                  rs |-> Append(st.rs, r),
                  draws |-> Append(st.draws,
                                   [who |-> "r", state |-> st.tr])],
                 Tail(proofs), Tail(c_openings), random)

\* the closing loop over the proofs zipped with aggregate.c_openings: the
\* Batch, the running transcript, expected_value and the r drawn so far
RECURSIVE closing_loop(_, _, _, _)
closing_loop(st, proofs, c_openings, random) ==
    IF proofs = << >> \/ c_openings = << >> THEN st
    ELSE LET r == Challenge(st.tr)
             tmp == FMul(c_openings[1][2], r)
         IN  closing_loop(
                 [batch |-> add_commitment(st.batch, proofs[1][2].s,
                                           FMul(r, random)),
                  tr |-> Squeeze(st.tr),
                  expected_value |-> FAdd(st.expected_value, tmp),
                  rs |-> Append(st.rs, r),
                  draws |-> Append(st.draws,
                                   [who |-> "r", state |-> st.tr])],
                 Tail(proofs), Tail(c_openings), random)

\* the closing claim on aggregate.s_opening
closing_claim(b, aggregate, expected_value, random, z) ==
    add_opening(add_opening_value(b, expected_value, random),
                aggregate.s_opening, random, z)

RECURSIVE CoeffDraws(_, _)
CoeffDraws(k, tr) ==
    IF k = 0 THEN << >>
    ELSE Append(CoeffDraws(k - 1, tr),
                [who |-> "c_opening_coeff", state |-> Transcript_clone(tr)])

\* one add_aggregate call on Batch b
add_aggregate(b, proofs, aggregate) ==
    LET tr == aggregate_transcript(proofs, aggregate)
        s == s_zw(tr.z, tr.w)
        b1 == aggregate_opening_claim(b, aggregate, tr.after, s.val, tr.w)
        b2 == c_openings_claims(b1, aggregate, tr.after, aggregate.c_openings,
                                tr.y_values)
        random == Challenge(Transcript_clone(tr.after))
        m == Min(Len(aggregate.c_openings), Len(proofs))
        lp == closing_loop([batch |-> b2, tr |-> tr.after,
                            expected_value |-> 0, rs |-> << >>,
                            draws |-> << >>],
                           proofs, aggregate.c_openings, random)
        b3 == closing_claim(lp.batch, aggregate, lp.expected_value, random,
                            tr.z)
        ydraws == [i \in 1 .. Len(proofs) |->
                      [who |-> "y", state |-> aggregate_y_state(proofs[i][1])]]
        head == ydraws \o << [who |-> "z", state |-> tr.tz],
                             [who |-> "w", state |-> tr.tw] >>
    IN  IF ~s.ok
        THEN [batch |-> b, aborted |-> TRUE, synth |-> s.synth,
              y_values |-> tr.y_values, z |-> tr.z, w |-> tr.w,
              draws |-> head]
        ELSE [batch |-> b3, aborted |-> FALSE, synth |-> s.synth,
              y_values |-> tr.y_values, z |-> tr.z, w |-> tr.w,
              szw |-> s.val, random |-> random, rs |-> lp.rs,
              expected_value |-> lp.expected_value,
              draws |-> head
                        \o << [who |-> "opening_coeff",
                               state |-> Transcript_clone(tr.after)] >>
                        \o CoeffDraws(m, tr.after)
                        \o << [who |-> "s_opening_coeff",
                               state |-> Transcript_clone(tr.after)] >>
                        \o lp.draws,
              transcript |-> lp.tr]

-----------------------------------------------------------------------------
(* The values the calls are made with *)

MkProof(i) ==
    [r |-> i % NumPoints,
     t |-> (i \div 2) % NumPoints,
     rz |-> i % FieldSize,
     rzy |-> (2 * i + 1) % FieldSize,
     z_opening |-> (i + 1) % NumPoints,
     zy_opening |-> ((i \div 2) + 1) % NumPoints]

ProofSet == {MkProof(i) : i \in 1 .. NumProofs}

MkAdvice(v) ==
    [s |-> v % NumPoints, szy |-> v, opening |-> (v \div 2) % NumPoints]

AdviceSet == {MkAdvice(v) : v \in Fr}

InputSet == {[i \in 1 .. m |-> (m + 2 * i) % FieldSize] : m \in 0 .. MaxInputs}

SxySet == {SxyNone} \cup {SxySome(v) : v \in {2 % FieldSize}}

\* lists of (proof, advice), in both orders
PairAt(i) == <<MkProof(i), MkAdvice((i * i + 2) % FieldSize)>>

ProofLists ==
    {[i \in 1 .. m |-> PairAt(i)] : m \in 0 .. MaxAggProofs}
    \cup {[i \in 1 .. m |-> PairAt(m + 1 - i)] : m \in 2 .. MaxAggProofs}

COpening(i) == <<(i + 1) % NumPoints, (3 * i + 1) % FieldSize>>

AggregateSet ==
    {[c |-> (m + 1) % NumPoints, opening |-> m % NumPoints,
      c_openings |-> [i \in 1 .. m |-> COpening(i)],
      s_opening |-> (m \div 2) % NumPoints] :
        m \in 0 .. MaxAggProofs}

-----------------------------------------------------------------------------
(* The state machine *)

NoCall == [op |-> "none"]

Init ==
    /\ circuit \in Circuits
    /\ status = "init"
    /\ batch = << >>
    /\ k_map = << >>
    /\ n = 0
    /\ q = 0
    /\ batch_n = 0
    /\ passes = 0
    /\ calls = << >>
    /\ last = NoCall
    /\ verdict = "none"
    /\ checks = 0
    /\ environment = "none"
    /\ coordinator = "none"
    /\ server = "none"
    /\ response = "none"
    /\ in_flight = "none"

\* a constructor that drops the result of the preprocessing pass
new_ignores_error(c) == [ok |-> TRUE, pre |-> Preprocess(c.events)]

\* MultiVerifier::new: one preprocessing pass, then the verifier or the error
new(c) ==
    IF SynthesisFails(c, passes + 1)
    THEN [ok |-> FALSE, pre |-> Preprocess(<< >>)]
    ELSE [ok |-> TRUE, pre |-> Preprocess(c.events)]

New ==
    /\ status = "init"
    /\ LET res == new(circuit)
       IN  /\ status' = IF res.ok THEN "live" ELSE "failed"
           /\ k_map' = res.pre.k_map
           /\ n' = res.pre.n
           /\ q' = res.pre.q
           /\ batch_n' = res.pre.n
           /\ last' = [op |-> "new", ok |-> res.ok]
    /\ passes' = passes + 1
    /\ UNCHANGED <<circuit, batch, calls, verdict, checks>>
    /\ UNCHANGED restVars

\* the effect of a call's result on the verifier
Apply(op, args, res) ==
    /\ Len(batch) <= MaxPending
    /\ batch' = res.batch
    /\ status' = IF res.aborted THEN "aborted" ELSE "live"
    /\ passes' = passes + res.synth
    /\ calls' = Append(calls, <<op, args>>)
    /\ last' = [op |-> op, args |-> args, base |-> Len(batch), out |-> res]
    /\ UNCHANGED <<circuit, k_map, n, q, batch_n, verdict, checks>>
    /\ UNCHANGED restVars

AddProof ==
    /\ status = "live"
    /\ \E proof \in ProofSet, inputs \in InputSet, sxy \in SxySet :
          Apply("add_proof", <<proof, inputs, sxy>>,
                add_proof(batch, proof, inputs, sxy))

AddProofWithAdvice ==
    /\ status = "live"
    /\ \E proof \in ProofSet, inputs \in InputSet, advice \in AdviceSet :
          Apply("add_proof_with_advice", <<proof, inputs, advice>>,
                add_proof_with_advice(batch, proof, inputs, advice))

AddAggregate ==
    /\ status = "live"
    /\ \E proofs \in ProofLists, aggregate \in AggregateSet :
          Apply("add_aggregate", <<proofs, aggregate>>,
                add_aggregate(batch, proofs, aggregate))

\* Batch::check_all: the combined check, in the exponent, at the trapdoor
RECURSIVE CombinedSum(_, _)
CombinedSum(b, x) ==
    IF b = << >> THEN 0
    ELSE LET e == b[1]
             rest == CombinedSum(Tail(b), x)
         IN  IF e[1] = "opening"
             THEN FSub(rest, FMul(e[3], FMul(e[2], FSub(x, e[4]))))
             ELSE IF e[1] = "value"
             THEN FSub(rest, FMul(e[3], e[2]))
             ELSE FAdd(rest, FMul(e[3], e[2]))

Batch_check_all(b) == CombinedSum(b, 2 % FieldSize) = 0

\* get_k_map(&self): a copy of the stored k_map
get_k_map == k_map

\* a getter that reads the neighbouring counter
get_n_reads_q == q

\* get_n(&self): the stored n
get_n == n

\* check_all on a borrowed verifier: it stays usable
check_all_borrowed(b) == [verdict |-> Batch_check_all(b), status |-> "live"]

\* MultiVerifier::check_all(self): consumes the verifier
check_all(b) == [verdict |-> Batch_check_all(b), status |-> "consumed"]

CheckAll ==
    /\ status = "live"
    /\ LET res == check_all(batch)
       IN  /\ verdict' = res.verdict
           /\ status' = res.status
    /\ checks' = checks + 1
    /\ last' = [op |-> "check_all", base |-> Len(batch)]
    /\ UNCHANGED <<circuit, batch, k_map, n, q, batch_n, passes, calls>>
    /\ UNCHANGED restVars

Next == New \/ AddProof \/ AddProofWithAdvice \/ AddAggregate \/ CheckAll

Spec == Init /\ [][Next]_vars

-----------------------------------------------------------------------------
(* Properties *)

\* the registrations the last call appended to the Batch
LastRegs == SubSeq(batch, last.base + 1, Len(batch))

\* the last call was op and it returned
Returned(op) == last.op = op /\ ~last.out.aborted

\* the state the k-th challenge of transcript tr was drawn from
DrawState(tr, k) ==
    LET i == CHOOSE j \in 1 .. Len(tr) :
                 /\ tr[j][1] = "ch"
                 /\ Cardinality({m \in 1 .. j : tr[m][1] = "ch"}) = k
    IN  SubSeq(tr, 1, i - 1)

\* C1: a returned add_proof call appended exactly eight registrations: the
\* opening proof.zy_opening at z*y, proof.r bounded-degree and the value
\* proof.rzy, all with the fourth challenge c1; the opening proof.z_opening at
\* z, the value t(z,y) and proof.t full-degree, all with the fifth challenge
\* c2; the value proof.rz and proof.r bounded-degree with c2*r1
C1_AddProofRegistrations ==
    Returned("add_proof") =>
        LET proof == last.args[1]
            tr == last.out.transcript
            y == Challenge(DrawState(tr, 1))
            z == Challenge(DrawState(tr, 2))
            r1 == Challenge(DrawState(tr, 3))
            c1 == Challenge(DrawState(tr, 4))
            c2 == Challenge(DrawState(tr, 5))
            c2r1 == (c2 * r1) % FieldSize
        IN  /\ Len(batch) = last.base + 8
            /\ LastRegs =
                 << <<"opening", proof.zy_opening, c1, (z * y) % FieldSize>>,
                    <<"commitment_max_n", proof.r, c1>>,
                    <<"value", proof.rzy, c1>>,
                    <<"opening", proof.z_opening, c2, z>>,
                    <<"value", last.out.tzy, c2>>,
                    <<"commitment", proof.t, c2>>,
                    <<"value", proof.rz, c2r1>>,
                    <<"commitment_max_n", proof.r, c2r1>> >>

\* C1 witness: add_proof returned on a Batch that held registrations, for a
\* proof whose r and t differ and with c1, c2 and c2*r1 all different
C1_Witness ==
    /\ Returned("add_proof")
    /\ last.base > 0
    /\ last.args[1].r # last.args[1].t
    /\ last.out.c1 # last.out.c2
    /\ last.out.c2 # (last.out.c2 * last.out.r1) % FieldSize

\* C2: the transcript of a returned add_proof call is: absorb r, draw y,
\* absorb t, draw z, absorb rz, absorb rzy, draw r1, absorb z_opening, absorb
\* zy_opening, draw c1, draw c2; each challenge is the digest of the events
\* before its draw
C2_TranscriptOrder ==
    Returned("add_proof") =>
        LET proof == last.args[1]
            events == << <<"pt", proof.r>>, <<"ch">>, <<"pt", proof.t>>,
                         <<"ch">>, <<"sc", proof.rz>>, <<"sc", proof.rzy>>,
                         <<"ch">>, <<"pt", proof.z_opening>>,
                         <<"pt", proof.zy_opening>>, <<"ch">>, <<"ch">> >>
        IN  /\ last.out.transcript = events
            /\ last.out.y = Challenge(SubSeq(events, 1, 1))
            /\ last.out.z = Challenge(SubSeq(events, 1, 3))
            /\ last.out.r1 = Challenge(SubSeq(events, 1, 6))
            /\ last.out.c1 = Challenge(SubSeq(events, 1, 9))
            /\ last.out.c2 = Challenge(SubSeq(events, 1, 10))
            /\ LastRegs[1][3] = last.out.c1
            /\ LastRegs[4][3] = last.out.c2
            /\ LastRegs[4][4] = last.out.z

\* C2 witness: add_proof returned for a proof whose components are told
\* apart by the order they are absorbed in
C2_Witness ==
    /\ Returned("add_proof")
    /\ last.args[1].rz # last.args[1].rzy
    /\ last.args[1].z_opening # last.args[1].zy_opening
    /\ last.args[1].r # last.args[1].t
    /\ last.out.y # last.out.z

\* C3: calls are made only on a constructed verifier; check_all is invoked at
\* most once, only on a live verifier, and once it has been invoked no add_*
\* call is made and the Batch is never touched again
C3_Lifecycle ==
    /\ [](checks <= 1)
    /\ [](checks = 1 <=> status = "consumed")
    /\ [][/\ calls' # calls => status = "live" /\ checks = 0
          /\ checks' # checks => status = "live" /\ status' = "consumed"
          /\ checks >= 1 => batch' = batch /\ calls' = calls
                            /\ verdict' = verdict]_vars

\* C3 witness: check_all has consumed a verifier that accumulated two calls
C3_Witness ==
    /\ status = "consumed"
    /\ checks = 1
    /\ Len(calls) = 2
    /\ verdict \in BOOLEAN


\* the draws of the last call that give a coefficient or a per-proof r
CoefficientDraws ==
    {i \in DOMAIN last.out.draws :
        last.out.draws[i].who \in
            {"opening_coeff", "c_opening_coeff", "s_opening_coeff", "r"}}

\* C4: in a returned add_aggregate call the coefficient of the
\* aggregate.opening claim, of each c_openings claim, of the s_opening claim
\* and the per-proof challenges r_i are drawn from pairwise different
\* transcript states
C4_FreshCoefficients ==
    Returned("add_aggregate") =>
        \A i, j \in CoefficientDraws :
            i # j => last.out.draws[i].state # last.out.draws[j].state

\* ev was absorbed by the transcript before it reached state tr
Absorbed(tr, ev) == \E i \in DOMAIN tr : tr[i] = ev

\* the state the first draw named who of the last call was made from
StateOf(who) ==
    LET i == CHOOSE j \in DOMAIN last.out.draws : last.out.draws[j].who = who
    IN  last.out.draws[i].state

\* the operands of the opening claims of the last call, each with the state
\* its coefficient was drawn from
OpeningClaims ==
    IF last.op = "add_proof" \/ last.op = "add_proof_with_advice"
    THEN LET proof == last.args[1]
         IN  { [state |-> StateOf("c1"),
                operands |-> { <<"pt", proof.r>>, <<"pt", proof.zy_opening>>,
                               <<"sc", proof.rzy>> }],
               [state |-> StateOf("c2"),
                operands |-> { <<"pt", proof.t>>, <<"pt", proof.r>>,
                               <<"pt", proof.z_opening>>,
                               <<"sc", proof.rz>> }] }
             \cup
             (IF last.op = "add_proof_with_advice"
              THEN LET advice == last.args[3]
                   IN  { [state |-> StateOf("advice"),
                          operands |-> { <<"pt", advice.s>>,
                                         <<"pt", advice.opening>>,
                                         <<"sc", advice.szy>> }] }
              ELSE {})
    ELSE LET proofs == last.args[1]
             aggregate == last.args[2]
             m == Min(Len(proofs), Len(aggregate.c_openings))
         IN  { [state |-> StateOf("opening_coeff"),
                operands |-> { <<"pt", aggregate.c>>,
                               <<"pt", aggregate.opening>> }],
               [state |-> StateOf("s_opening_coeff"),
                operands |-> { <<"pt", aggregate.s_opening>> }
                             \cup { <<"pt", proofs[i][2].s>> : i \in 1 .. m }] }
             \cup
             { [state |-> StateOf("c_opening_coeff"),
                operands |-> { <<"pt", aggregate.c>>,
                               <<"pt", aggregate.c_openings[i][1]>>,
                               <<"sc", aggregate.c_openings[i][2]>> }] :
                   i \in 1 .. m }

\* C5: every opening claim of a returned add_proof, add_proof_with_advice or
\* add_aggregate call takes its coefficient from a transcript state that has
\* absorbed the claim's commitment, opening proof and proof-supplied value
C5_CoefficientsAfterOperands ==
    (\/ Returned("add_proof")
     \/ Returned("add_proof_with_advice")
     \/ Returned("add_aggregate")) =>
        \A cl \in OpeningClaims :
            \A ev \in cl.operands : Absorbed(cl.state, ev)

\* the registrations one call makes on an empty Batch
RegsOf(call) ==
    IF call[1] = "add_proof"
    THEN add_proof(<< >>, call[2][1], call[2][2], call[2][3]).batch
    ELSE IF call[1] = "add_proof_with_advice"
    THEN add_proof_with_advice(<< >>, call[2][1], call[2][2], call[2][3]).batch
    ELSE add_aggregate(<< >>, call[2][1], call[2][2]).batch

RECURSIVE ConcatRegs(_)
ConcatRegs(cs) ==
    IF cs = << >> THEN << >> ELSE RegsOf(cs[1]) \o ConcatRegs(Tail(cs))

Reverse(s) == [i \in 1 .. Len(s) |-> s[Len(s) + 1 - i]]

Count(s, e) == Cardinality({i \in DOMAIN s : s[i] = e})

\* C6: as long as no call aborted, the Batch is the concatenation of what
\* each call registers on its own, whatever preceded it; the same calls in
\* the opposite order register the same multiset
C6_CallsIndependent ==
    status \in {"live", "consumed"} =>
        /\ batch = ConcatRegs(calls)
        /\ LET other == ConcatRegs(Reverse(calls))
           IN  /\ Len(other) = Len(batch)
               /\ \A i \in DOMAIN batch :
                      Count(batch, batch[i]) = Count(other, batch[i])

\* C6 witness: the same add_proof call made twice, its eight registrations
\* twice in the Batch
C6_Witness ==
    /\ status = "live"
    /\ Len(calls) = 2
    /\ calls[1] = calls[2]
    /\ calls[1][1] = "add_proof"
    /\ Len(batch) = 16
    /\ SubSeq(batch, 1, 8) = SubSeq(batch, 9, 16)

\* the value the fallback evaluator computes at (z, y)
Fallback(z, y) ==
    SxEval_finalize(SxEval_synthesize(SxEval_new(y, n), circuit.events), z)

\* C7: a returned add_proof_with_advice call registered what add_proof with
\* sxy answering Some(advice.szy) registers, then the opening advice.opening
\* at the same z, advice.s full-degree and the value advice.szy, with the
\* first challenge of a transcript that absorbed advice.opening, advice.s,
\* advice.szy; when advice.szy is the fallback evaluator's value, the first
\* eight are those of add_proof with sxy answering None
C7_AdviceRegistrations ==
    Returned("add_proof_with_advice") =>
        LET proof == last.args[1]
            inputs == last.args[2]
            advice == last.args[3]
            inner == add_proof(<< >>, proof, inputs, SxySome(advice.szy))
            c == Challenge(<< <<"pt", advice.opening>>, <<"pt", advice.s>>,
                              <<"sc", advice.szy>> >>)
        IN  /\ LastRegs = inner.batch
                          \o << <<"opening", advice.opening, c, inner.z>>,
                                <<"commitment", advice.s, c>>,
                                <<"value", advice.szy, c>> >>
            /\ Len(LastRegs) = 11
            /\ LastRegs[4][4] = inner.z
            /\ (/\ ~SynthesisFails(circuit, passes + 1)
                /\ advice.szy = Fallback(inner.z, inner.y))
               => SubSeq(LastRegs, 1, 8)
                  = add_proof(<< >>, proof, inputs, SxyNone).batch

\* C7 witness: add_proof_with_advice returned with an advice value equal to
\* the evaluator's, on a circuit whose synthesis succeeds
C7_Witness ==
    /\ Returned("add_proof_with_advice")
    /\ ~SynthesisFails(circuit, passes + 1)
    /\ last.args[3].szy = Fallback(last.out.z, last.out.y)
    /\ last.args[3].opening # last.args[1].z_opening

\* C8: the value registered with proof.z_opening is
\* (proof.rzy + s) * proof.rz - k(y), s being the closure's answer when it is
\* Some and the evaluator's value at (z, y) otherwise; the evaluator runs
\* exactly when the closure answers None
C8_TzyValue ==
    last.op = "add_proof" =>
        LET proof == last.args[1]
            sxy == last.args[3]
            s == IF sxy.tag = "Some" THEN sxy.val
                 ELSE Fallback(last.out.z, last.out.y)
            expected == ((proof.rzy + s) * proof.rz - last.out.ky) % FieldSize
        IN  /\ last.out.synth = (IF sxy.tag = "None" THEN 1 ELSE 0)
            /\ ~last.out.aborted =>
                   LastRegs[5] = <<"value", expected, last.out.c2>>

\* C8 witness: both ways of getting s, each with a value of t(z,y) that the
\* other way would not have given
C8_Witness ==
    /\ Returned("add_proof")
    /\ last.args[3].tag = "None"
    /\ last.out.szy # 0
    /\ last.args[1].rz # last.args[1].rzy
    /\ last.out.tzy # (last.args[1].rzy * last.args[1].rz - last.out.ky) % FieldSize

\* C9: k(y) is the sum of y^(k_map[i] + n) * input_i over the k_map entries
\* that have an input, input_1 being one and the others the public inputs in
\* order, with the k_map and n of the construction
C9_Ky ==
    last.op \in {"add_proof", "add_proof_with_advice"} =>
        LET ins == <<1>> \o last.args[2]
            cnt == Min(Len(k_map), Len(ins))
            y == last.out.y
            sum[i \in 0 .. cnt] ==
                IF i = 0 THEN 0
                ELSE sum[i - 1] + (y ^ (k_map[i] + n)) * ins[i]
        IN  /\ last.out.ky = sum[cnt] % FieldSize
            /\ k_map = Preprocess(circuit.events).k_map
            /\ n = Preprocess(circuit.events).n

\* C9 witness: k(y) with a public input next to the constant one, at a y
\* whose powers differ
C9_Witness ==
    /\ Returned("add_proof")
    /\ Len(k_map) >= 2
    /\ Len(last.args[2]) >= 1
    /\ last.out.y > 1
    /\ last.out.ky # 0

\* how many of the calls so far are add_proof calls whose sxy answers None,
\* and how many are add_aggregate calls
NumFallbackProofs ==
    Cardinality({i \in DOMAIN calls :
                    calls[i][1] = "add_proof" /\ calls[i][2][3].tag = "None"})

NumAggregates ==
    Cardinality({i \in DOMAIN calls : calls[i][1] = "add_aggregate"})

\* C10 as claimed: after construction the circuit is synthesized again only
\* by add_proof calls whose sxy answers None (stated where every call so far
\* has returned)
C10_OnlyAddProofSynthesizes ==
    status \in {"live", "consumed"} => passes = 1 + NumFallbackProofs

\* C10 as amended: after construction the circuit is synthesized once by
\* every add_proof call whose sxy answers None and once by every
\* add_aggregate call; add_proof_with_advice never synthesizes it
C10_SynthesisPasses ==
    status # "init" =>
        passes = 1 + NumFallbackProofs + NumAggregates

\* C10 witness: add_proof_with_advice and add_aggregate have both been
\* called, and only the latter made a pass
C10_Witness ==
    /\ Len(calls) = 2
    /\ calls[1][1] = "add_aggregate"
    /\ calls[2][1] = "add_proof_with_advice"
    /\ passes = 2

-----------------------------------------------------------------------------
(* add_aggregate: its challenges and its claims *)

\* the advice commitments of a list of (proof, advice), as transcript events
AdviceEvents(proofs) == [i \in 1 .. Len(proofs) |-> <<"pt", proofs[i][2].s>>]

\* the number of c_openings claims of the last add_aggregate call
Zipped == Min(Len(last.args[1]), Len(last.args[2].c_openings))

\* C11: in a returned add_aggregate call, y_i is the first challenge of a
\* transcript that absorbed proof_i.r and nothing else, which is the y
\* add_proof draws for that proof; z is drawn from the running transcript in
\* the state that absorbed s_1 .. s_k in proof order and nothing else; w is
\* drawn after z and after aggregate.c was absorbed next; and the first three
\* registrations are aggregate.opening at w, aggregate.c full-degree and the
\* evaluator's value for (w, n) finalized at z, under one coefficient
C11_AggregateChallenges ==
    Returned("add_aggregate") =>
        LET proofs == last.args[1]
            aggregate == last.args[2]
            tr == last.out.transcript
            tz == DrawState(tr, 1)
            tw == DrawState(tr, 2)
            z == Challenge(tz)
            w == Challenge(tw)
        IN  /\ \A i \in 1 .. Len(proofs) :
                  /\ last.out.draws[i] =
                         [who |-> "y", state |-> << <<"pt", proofs[i][1].r>> >>]
                  /\ last.out.y_values[i] = Challenge(last.out.draws[i].state)
                  /\ last.out.y_values[i] =
                         add_proof_transcript(proofs[i][1]).y
            /\ \A i \in 1 .. Zipped :
                  LastRegs[3 * i + 1][1] = "opening"
                  /\ LastRegs[3 * i + 1][4] = last.out.y_values[i]
            /\ tz = AdviceEvents(proofs)
            /\ StateOf("z") = tz
            /\ tw = tz \o << <<"ch">>, <<"pt", aggregate.c>> >>
            /\ StateOf("w") = tw
            /\ last.out.z = z /\ last.out.w = w
            /\ \E coeff \in Fr :
                  SubSeq(LastRegs, 1, 3) =
                      << <<"opening", aggregate.opening, coeff, w>>,
                         <<"commitment", aggregate.c, coeff>>,
                         <<"value", Fallback(z, w), coeff>> >>

\* C11 witness: add_aggregate returned for two proofs with different r and
\* different y, with z and w different and the evaluator's value depending
\* on which of them is the fixed coordinate
C11_Witness ==
    /\ Returned("add_aggregate")
    /\ Len(last.args[1]) = 2
    /\ Zipped = 2
    /\ last.args[1][1][1].r # last.args[1][2][1].r
    /\ last.out.y_values[1] # last.out.y_values[2]
    /\ last.out.z # last.out.w
    /\ Fallback(last.out.z, last.out.w) # Fallback(last.out.w, last.out.z)

\* the registrations of the closing step of the last add_aggregate call:
\* what follows the opening claim and the Zipped c_openings claims
ClosingRegs == SubSeq(LastRegs, 3 * Zipped + 4, Len(LastRegs))

\* random of the closing step: drawn from a clone of the running transcript
\* as it stands after w was drawn
ClosingRandom ==
    Challenge(Squeeze(DrawState(last.out.transcript, 2)))

\* r_i of the last add_aggregate call: the i-th challenge drawn from the
\* running transcript after w
ClosingR(i) == Challenge(DrawState(last.out.transcript, 2 + i))

\* the sum of f[1] * r_1 .. f[k] * r_k
RECURSIVE FoldScaled(_, _)
FoldScaled(f, k) ==
    IF k = 0 THEN 0
    ELSE FAdd(FoldScaled(f, k - 1), FMul(f[k], ClosingR(k)))

\* the closing step but for the folded values: advice_i.s full-degree with
\* coefficient r_i * random for each zipped proof, then the value under
\* random and the single opening of aggregate.s_opening at z under random
ClosingShape(expected_value) ==
    LET proofs == last.args[1]
        aggregate == last.args[2]
        random == ClosingRandom
    IN  /\ Len(ClosingRegs) = Zipped + 2
        /\ \A i \in 1 .. Zipped :
              ClosingRegs[i] =
                  <<"commitment", proofs[i][2].s, FMul(ClosingR(i), random)>>
        /\ ClosingRegs[Zipped + 1] = <<"value", expected_value, random>>
        /\ ClosingRegs[Zipped + 2] =
               <<"opening", aggregate.s_opening, random, last.out.z>>
        /\ Cardinality({i \in DOMAIN LastRegs :
                           LastRegs[i][1] = "opening"
                           /\ LastRegs[i][4] = last.out.z
                           /\ i > 1}) <= 1 + Cardinality(
                               {j \in 1 .. Zipped :
                                   last.out.y_values[j] = last.out.z})

\* C12 as stated: the closing step of a returned add_aggregate call folds
\* each proof's own advice_i.szy scaled by r_i into expected_value, registers
\* each advice_i.s full-degree with coefficient r_i * random, and closes with
\* one opening of aggregate.s_opening at z with value expected_value and
\* coefficient random
C12_FoldsAdviceSzy ==
    Returned("add_aggregate") =>
        ClosingShape(FoldScaled([i \in 1 .. Zipped |-> last.args[1][i][2].szy],
                                Zipped))

\* C12: the closing step of a returned add_aggregate call folds the claimed
\* value of aggregate.c_openings[i] scaled by r_i, for the proofs zipped with
\* the c_openings, into expected_value, registers each such advice_i.s
\* full-degree with coefficient r_i * random, and closes with one opening of
\* aggregate.s_opening at z with value expected_value and coefficient random
C12_FoldsCOpeningValues ==
    Returned("add_aggregate") =>
        /\ ClosingShape(FoldScaled([i \in 1 .. Zipped |->
                                       last.args[2].c_openings[i][2]],
                                   Zipped))
        /\ last.out.expected_value =
               FoldScaled([i \in 1 .. Zipped |->
                              last.args[2].c_openings[i][2]], Zipped)

\* C12 witness: add_aggregate returned for two zipped proofs with non-zero
\* r_1, r_2 and random, where folding the advice values gives another sum
C12_Witness ==
    /\ Returned("add_aggregate")
    /\ Zipped = 2
    /\ ClosingR(1) # 0 /\ ClosingR(2) # 0
    /\ ClosingRandom # 0
    /\ last.out.expected_value # 0
    /\ last.out.expected_value #
           FoldScaled([i \in 1 .. Zipped |-> last.args[1][i][2].szy], Zipped)

-----------------------------------------------------------------------------
(* Construction *)

\* the events of one kind in a pass, in the order the pass delivers them
EventsOf(ev, kind) == SelectSeq(ev, LAMBDA e : e[1] = kind)

\* the indices one pass hands to new_k_power, in order
KPowerIndices(ev) ==
    [i \in 1 .. Len(EventsOf(ev, "k")) |-> EventsOf(ev, "k")[i][2]]

\* C14: when MultiVerifier::new has just succeeded, exactly one synthesis
\* pass was run, k_map is the sequence of the indices that pass handed to
\* new_k_power in order, n the number of its multiplication-gate events, q
\* the number of its linear-constraint events, the Batch is sized with that
\* n, and constructing a second verifier over the same circuit gives the same
\* k_map, n and q
C14_Preprocessing ==
    (last.op = "new" /\ last.ok) =>
        /\ status = "live"
        /\ passes = 1
        /\ k_map = KPowerIndices(circuit.events)
        /\ n = Len(EventsOf(circuit.events, "gate"))
        /\ q = Len(EventsOf(circuit.events, "lc"))
        /\ batch_n = n
        /\ batch = << >>
        /\ ~SynthesisFails(circuit, passes + 1) =>
               new(circuit) =
                   [ok |-> TRUE, pre |-> [k_map |-> k_map, n |-> n, q |-> q]]

\* C14 witness: new has just succeeded on a circuit with two k-power
\* indices, at least one gate and a different number of linear constraints
C14_Witness ==
    /\ last.op = "new" /\ last.ok
    /\ Len(k_map) = 2 /\ k_map[1] # k_map[2]
    /\ n >= 1 /\ q # n

\* C15: once the verifier is constructed, no step changes k_map, n or q
\* (nor what get_k_map and get_n return), and at every point of its life
\* get_k_map and get_n return the values preprocessing computed
C15_PreprocessingFixed ==
    /\ [](status \in {"live", "aborted", "consumed"} =>
            /\ get_k_map = KPowerIndices(circuit.events)
            /\ get_n = Len(EventsOf(circuit.events, "gate"))
            /\ q = Len(EventsOf(circuit.events, "lc")))
    /\ [][status # "init" =>
            /\ k_map' = k_map /\ n' = n /\ q' = q
            /\ get_k_map' = get_k_map /\ get_n' = get_n]_vars

\* C15 witness: a verifier with k_map of two indices and n different from q
\* after an add_aggregate and an add_proof_with_advice call
C15_Witness ==
    /\ status = "live"
    /\ Len(calls) = 2
    /\ {calls[i][1] : i \in 1 .. 2} =
           {"add_proof_with_advice", "add_aggregate"}
    /\ Len(get_k_map) = 2
    /\ get_n # q

\* C16: MultiVerifier::new returns Ok exactly when the preprocessing pass
\* returns Ok; when the pass reports an error, new returns the error (it
\* does not abort), and there is no verifier and no Batch: nothing was
\* stored, and no call and no check_all is ever made
C16_ConstructionError ==
    /\ last.op = "new" =>
          /\ last.ok <=> ~SynthesisFails(circuit, 1)
          /\ status = (IF last.ok THEN "live" ELSE "failed")
          /\ passes = 1
    /\ status = "failed" =>
          /\ SynthesisFails(circuit, 1)
          /\ last = [op |-> "new", ok |-> FALSE]
          /\ batch = << >> /\ batch_n = 0
          /\ k_map = << >> /\ n = 0 /\ q = 0
          /\ calls = << >> /\ checks = 0 /\ verdict = "none"
    /\ status \in {"live", "aborted", "consumed"} =>
          ~SynthesisFails(circuit, 1)

\* C16 witness: new has returned the error of a circuit whose preprocessing
\* pass fails
C16_Witness ==
    /\ status = "failed"
    /\ last.op = "new" /\ ~last.ok
    /\ SynthesisFails(circuit, 1)
    /\ passes = 1

-----------------------------------------------------------------------------
(* Growth of the Batch *)

\* the number of registrations of one kind in a Batch
KindCount(b, kind) == Cardinality({i \in DOMAIN b : b[i][1] = kind})

\* the registrations of each kind one returned call adds
Growth(call) ==
    IF call[1] = "add_proof"
    THEN [opening |-> 2, commitment |-> 1, commitment_max_n |-> 2,
          value |-> 3]
    ELSE IF call[1] = "add_proof_with_advice"
    THEN [opening |-> 3, commitment |-> 2, commitment_max_n |-> 2,
          value |-> 4]
    ELSE LET m == Min(Len(call[2][1]), Len(call[2][2].c_openings))
         IN  [opening |-> m + 2, commitment |-> 2 * m + 1,
              commitment_max_n |-> 0, value |-> m + 2]

Kinds == {"opening", "commitment", "commitment_max_n", "value"}

\* the registrations of one kind the first k calls add together
RECURSIVE TotalGrowth(_, _)
TotalGrowth(k, kind) ==
    IF k = 0 THEN 0 ELSE TotalGrowth(k - 1, kind) + Growth(calls[k])[kind]

IsPrefix(s, t) == Len(s) <= Len(t) /\ SubSeq(t, 1, Len(s)) = s

\* C19: a returned add_proof adds 2 openings, 1 full-degree and 2
\* bounded-degree commitments and 3 values; add_proof_with_advice adds 3, 2
\* and 2, and 4; add_aggregate adds m + 2 openings, 2m + 1 full-degree
\* commitments and m + 2 values for m the smaller of the number of proofs and
\* of c_openings, and returns also when the two lengths differ; no step
\* removes or changes a registration, and the Batch holds, per kind, the sum
\* of what the calls made so far add
C19_BatchGrowth ==
    /\ [](status \in {"live", "consumed"} =>
            /\ \A kind \in Kinds :
                  KindCount(batch, kind) = TotalGrowth(Len(calls), kind)
            /\ \A i \in DOMAIN batch : batch[i][1] \in Kinds
            /\ (last.op \in {"add_proof", "add_proof_with_advice",
                             "add_aggregate"}) =>
                  \A kind \in Kinds :
                      KindCount(LastRegs, kind) =
                          Growth(<<last.op, last.args>>)[kind])
    /\ [](circuit.failFrom = 0 => status # "aborted")
    /\ [][IsPrefix(batch, batch')]_vars

\* C19 witness: add_aggregate returned on a Batch that held registrations,
\* with more proofs than c_openings and at least one c_opening
C19_Witness ==
    /\ Returned("add_aggregate")
    /\ last.base > 0
    /\ Zipped >= 1
    /\ Len(last.args[1]) > Len(last.args[2].c_openings)

-----------------------------------------------------------------------------
(* The sxy closure *)

\* the number of challenges drawn on the way to transcript state tr
NumDraws(tr) == Cardinality({i \in DOMAIN tr : tr[i][1] = "ch"})

\* C20: every add_proof call, also one that aborts afterwards and the one
\* inside add_proof_with_advice, invokes the sxy closure exactly once, with
\* exactly (z, y) of the call's own transcript, when y and z are drawn and
\* the three registrations of the first claim are made; so
\* add_proof_with_advice always finds the z it captured, never aborts, and
\* registers advice.opening at the point proof.z_opening is registered at
C20_ClosureCall ==
    (last.op \in {"add_proof", "add_proof_with_advice"}) =>
        LET proof == last.args[1]
            out == last.out
            tr == out.transcript
            y == Challenge(DrawState(tr, 1))
            z == Challenge(DrawState(tr, 2))
            c1 == Challenge(DrawState(tr, 4))
        IN  /\ out.sxy_args = << <<z, y>> >>
            /\ DrawState(tr, 1) = << <<"pt", proof.r>> >>
            /\ IsPrefix(out.sxy_at.transcript, tr)
            /\ NumDraws(out.sxy_at.transcript) >= 2
            /\ out.sxy_at.regs = 3
            /\ Len(batch) >= last.base + 3
            /\ SubSeq(batch, last.base + 1, last.base + 3) =
                   << <<"opening", proof.zy_opening, c1, FMul(z, y)>>,
                      <<"commitment_max_n", proof.r, c1>>,
                      <<"value", proof.rzy, c1>> >>
            /\ last.op = "add_proof_with_advice" =>
                  /\ ~out.aborted
                  /\ out.captured_z = z
                  /\ LastRegs[4][1] = "opening"
                  /\ LastRegs[4][2] = proof.z_opening
                  /\ LastRegs[9][1] = "opening"
                  /\ LastRegs[9][2] = last.args[3].opening
                  /\ LastRegs[9][4] = LastRegs[4][4]
                  /\ LastRegs[9][4] = z

\* C20 witness: add_proof_with_advice returned for a proof whose y and z
\* differ, with advice.opening different from proof.z_opening
C20_Witness ==
    /\ Returned("add_proof_with_advice")
    /\ last.out.y # last.out.z
    /\ last.out.captured_z = last.out.z
    /\ last.args[3].opening # last.args[1].z_opening
    /\ last.base > 0

-----------------------------------------------------------------------------
(* REST front end: signed requests.  A String is the sequence of its        *)
(* characters; a SignedRequest<T> is [request, signature, pubkey] with       *)
(* request an Option<T>.                                                     *)

NumKeys == 2
MaxChunk == 1
MaxUpdates == 1

None == [tag |-> "None"]
Some(v) == [tag |-> "Some", val |-> v]

\* the values that are serialized: (), u64 and String
Unit == [ty |-> "unit"]
U64(x) == [ty |-> "u64", num |-> x]
Str(s) == [ty |-> "string", chars |-> s]

Digits == <<"0", "1", "2", "3", "4", "5", "6", "7", "8", "9">>

RECURSIVE Decimal(_)
Decimal(x) ==
    IF x < 10 THEN <<Digits[x + 1]>>
    ELSE Decimal(x \div 10) \o <<Digits[(x % 10) + 1]>>

\* the characters of a JSON string literal: quote and backslash escaped
RECURSIVE Escape(_)
Escape(s) ==
    IF s = << >> THEN << >>
    ELSE (IF s[1] = "\"" \/ s[1] = "\\" THEN <<"\\", s[1]>> ELSE <<s[1]>>)
         \o Escape(Tail(s))

\* json::to_string
json_to_string(value) ==
    IF value.ty = "unit" THEN <<"n", "u", "l", "l">>
    ELSE IF value.ty = "u64" THEN Decimal(value.num)
    ELSE <<"\"">> \o Escape(value.chars) \o <<"\"">>

\* key pairs: KeyPair::new() gives a signing key and the matching public key
Keys == 1 .. NumKeys
PubkeyOf(k) == <<"p", "k">> \o Decimal(k)
SigkeyOf(k) == <<"s", "k">> \o Decimal(k)
KeyPair_new(k) == [pubkey |-> PubkeyOf(k), sigkey |-> SigkeyOf(k)]
KeyPairs == {KeyPair_new(k) : k \in Keys}

\* the Production signature scheme: a signature binds the signing key and
\* the message, and verifies under the matching public key only
Production_sign(sigkey, message) ==
    IF \E k \in Keys : sigkey = SigkeyOf(k)
    THEN [ok |-> TRUE, signature |-> <<"sig", sigkey, message>>]
    ELSE [ok |-> FALSE, signature |-> <<"sig", << >>, << >> >>]

Production_verify(pubkey, message, signature) ==
    \E k \in Keys :
        pubkey = PubkeyOf(k) /\ signature = <<"sig", SigkeyOf(k), message>>

\* Results of the handlers
Ok == [kind |-> "Ok"]
InvalidSignature == [kind |-> "InvalidSignature"]
SigningError == [kind |-> "SigningError"]
UnauthorizedParticipant(participant, endpoint) ==
    [kind |-> "UnauthorizedParticipant", participant |-> participant,
     endpoint |-> endpoint]

\* a verify that serializes the Option itself: an absent body becomes null
verify_serializes_option(req) ==
    LET request == json_to_string(Str(req.pubkey))
        message == request \o (IF req.request.tag = "Some"
                               THEN json_to_string(req.request.val)
                               ELSE json_to_string(Unit))
    IN  IF Production_verify(req.pubkey, message, req.signature)
        THEN Ok ELSE InvalidSignature

\* SignedRequest::verify
verify(req) ==
    LET request == json_to_string(Str(req.pubkey))
        message == IF req.request.tag = "Some"
                   THEN request \o json_to_string(req.request.val)
                   ELSE request
    IN  IF Production_verify(req.pubkey, message, req.signature)
        THEN Ok ELSE InvalidSignature

\* SignedRequest::try_sign
try_sign(keypair, request) ==
    LET pubkey == json_to_string(Str(keypair.pubkey))
        message == IF request.tag = "Some"
                   THEN pubkey \o json_to_string(request.val)
                   ELSE pubkey
        signed == Production_sign(keypair.sigkey, message)
    IN  IF signed.ok
        THEN [ok |-> TRUE,
              value |-> [request |-> request,
                         signature |-> signed.signature,
                         pubkey |-> keypair.pubkey]]
        ELSE [ok |-> FALSE, err |-> SigningError]

Participant_new_verifier(pubkey) == <<"Verifier", pubkey>>
Participant_new_contributor(pubkey) == <<"Contributor", pubkey>>

\* a check of the signature alone
check_coordinator_request_any_signer(req, endpoint) == verify(req)

\* SignedRequest::check_coordinator_request
check_coordinator_request(req, endpoint) ==
    LET verifier == Participant_new_verifier(req.pubkey)
    IN  IF verifier # environment.coordinator_verifiers[1]
        THEN UnauthorizedParticipant(verifier, endpoint)
        ELSE verify(req)

-----------------------------------------------------------------------------
(* REST front end: the Coordinator and the handlers.  A coordinator         *)
(* operation runs in a blocking task whose outcome is "Ok", "Err" (the       *)
(* operation returned a CoordinatorError) or "Panicked" (JoinError).         *)

Outcomes == {"Ok", "Err", "Panicked"}

Task_new(chunk_id, contribution_id) ==
    [chunk_id |-> chunk_id, contribution_id |-> contribution_id]

Tasks == {Task_new(c, 1) : c \in 0 .. MaxChunk}

ShutdownError == [kind |-> "ShutdownError"]
CoordinatorError == [kind |-> "CoordinatorError"]
VerificationError == [kind |-> "VerificationError"]
RuntimeError == [kind |-> "RuntimeError"]
Panic == [kind |-> "panic"]

\* Coordinator::shutdown
Coordinator_shutdown(c, outcome) ==
    IF outcome = "Ok" THEN [c EXCEPT !.stopped = TRUE] ELSE c

\* Coordinator::update: with no contributor in the round, the head of the
\* queue becomes the current contributor
Coordinator_update(c, outcome) ==
    IF outcome # "Ok" THEN c
    ELSE IF c.current = {} /\ c.queue # << >>
    THEN [c EXCEPT !.updates = @ + 1, !.current = {Head(c.queue)},
                   !.queue = Tail(@)]
    ELSE [c EXCEPT !.updates = @ + 1]

\* Coordinator::default_verify: the task is no longer pending
Coordinator_default_verify(c, task, outcome) ==
    IF outcome = "Ok"
    THEN [c EXCEPT !.pending = @ \ {task}]
    ELSE c

\* Coordinator::try_contribute: the contribution becomes a pending
\* verification, and a current contributor has finished its round
Coordinator_try_contribute(c, contributor, chunk_id, outcome) ==
    IF outcome = "Ok"
    THEN [c EXCEPT !.pending = @ \cup {Task_new(chunk_id, 1)},
                   !.current = @ \ {contributor},
                   !.finished = IF contributor \in c.current
                                THEN @ \cup {contributor} ELSE @]
    ELSE c

\* no handler waits for the lock
NoRequest == [op |-> "none"]

\* what a handler did: its answer, the coordinator operations it ran in
\* order, and the coordinator and the server it leaves
Answer(result, ops, c, srv) ==
    [result |-> result, ops |-> ops, coordinator |-> c, server |-> srv]

\* GET /stop
stop_coordinator(req, outcome) ==
    LET checked == check_coordinator_request(req, "/stop")
        c == Coordinator_shutdown(coordinator, outcome)
    IN  IF checked # Ok THEN Answer(checked, << >>, coordinator, server)
        ELSE IF outcome = "Panicked"
        THEN Answer(RuntimeError, <<"shutdown">>, c, server)
        ELSE IF outcome = "Err"
        THEN Answer(ShutdownError, <<"shutdown">>, c, server)
        ELSE Answer(Ok, <<"shutdown", "notify">>, c, "shutdown")

perform_coordinator_update(outcome) ==
    LET c == Coordinator_update(coordinator, outcome)
    IN  IF outcome = "Panicked"
        THEN Answer(RuntimeError, <<"update">>, c, server)
        ELSE IF outcome = "Err"
        THEN Answer(CoordinatorError, <<"update">>, c, server)
        ELSE Answer(Ok, <<"update">>, c, server)

\* GET /update
update_coordinator(req, outcome) ==
    LET checked == check_coordinator_request(req, "/update")
    IN  IF checked # Ok THEN Answer(checked, << >>, coordinator, server)
        ELSE perform_coordinator_update(outcome)

\* the loop over the pending verifications, taken in the order tasks; the
\* first default_verify that does not return Ok ends it
RECURSIVE perform_verify_chunks(_, _, _, _)
perform_verify_chunks(c, ops, tasks, outcomes) ==
    IF tasks = << >> THEN Answer(Ok, ops, c, server)
    ELSE LET after == Coordinator_default_verify(c, tasks[1], outcomes[1])
             done == Append(ops, "default_verify")
         IN  IF outcomes[1] = "Panicked"
             THEN Answer(RuntimeError, done, after, server)
             ELSE IF outcomes[1] = "Err"
             THEN Answer(VerificationError, done, after, server)
             ELSE perform_verify_chunks(after, done, Tail(tasks),
                                        Tail(outcomes))

\* GET /verify
verify_chunks(req, tasks, outcomes) ==
    LET checked == check_coordinator_request(req, "/verify")
    IN  IF checked # Ok THEN Answer(checked, << >>, coordinator, server)
        ELSE perform_verify_chunks(coordinator, << >>, tasks, outcomes)

\* POST /contributor/contribute_chunk
contribute_chunk(req, outcome) ==
    LET checked == verify(req)
        contributor == Participant_new_contributor(req.pubkey)
    IN  IF checked # Ok THEN Answer(checked, << >>, coordinator, server)
        ELSE IF req.request.tag = "None"
        THEN Answer(Panic, << >>, coordinator, server)
        ELSE LET c == Coordinator_try_contribute(coordinator, contributor,
                                                 req.request.val.num, outcome)
             IN  IF outcome = "Panicked"
                 THEN Answer(RuntimeError, <<"try_contribute">>, c, server)
                 ELSE IF outcome = "Err"
                 THEN Answer(CoordinatorError, <<"try_contribute">>, c,
                             server)
                 ELSE Answer(Ok, <<"try_contribute">>, c, server)

-----------------------------------------------------------------------------
(* REST front end: the requests that arrive, and the state machine *)

\* the bodies try_sign is given
SignBodies ==
    {None, Some(Unit), Some(Str(<<"t", "\"", "b">>))}
    \cup {Some(U64(c)) : c \in 0 .. MaxChunk}

\* a signature string that no key produced
GarbageSignature == <<"sig", <<"x">>, << >> >>

\* the requests a handler may receive for the given bodies: those a client
\* signed with its own key pair, and those with the pubkey, the body or the
\* signature replaced afterwards
Signed(bodies) ==
    {try_sign(kp, b).value : kp \in KeyPairs, b \in bodies}

Requests(bodies) ==
    Signed(bodies)
    \cup {[r EXCEPT !.pubkey = PubkeyOf(k)] : r \in Signed(bodies), k \in Keys}
    \cup {[r EXCEPT !.request = b] : r \in Signed(bodies), b \in bodies}
    \cup {[r EXCEPT !.signature = GarbageSignature] : r \in Signed(bodies)}

UnitBodies == {None, Some(Unit)}
ChunkBodies == {None} \cup {Some(U64(c)) : c \in 0 .. MaxChunk}

\* the requests of type SignedRequest<()> and SignedRequest<u64>
UnitRequests == Requests(UnitBodies)
ChunkRequests == Requests(ChunkBodies)

\* the orders in which a set of tasks can be iterated
Orders(S) ==
    {f \in [1 .. Cardinality(S) -> S] : {f[i] : i \in DOMAIN f} = S}

RestInit ==
    /\ environment =
           [coordinator_verifiers |->
                <<Participant_new_verifier(PubkeyOf(1)),
                  Participant_new_verifier(PubkeyOf(NumKeys))>>]
    /\ coordinator = [stopped |-> FALSE, updates |-> 0, pending |-> {},
                      queue |-> << >>, current |-> {}, finished |-> {},
                      files |-> {}]
    /\ server = "running"
    /\ response = [op |-> "none"]
    /\ in_flight = NoRequest
    /\ circuit = CircuitA
    /\ status = "init"
    /\ batch = << >>
    /\ k_map = << >>
    /\ n = 0
    /\ q = 0
    /\ batch_n = 0
    /\ passes = 0
    /\ calls = << >>
    /\ last = NoCall
    /\ verdict = "none"
    /\ checks = 0

\* a client signs a request
TrySign ==
    \E kp \in KeyPairs, body \in SignBodies :
        /\ response' = [op |-> "try_sign", keypair |-> kp, body |-> body,
                        out |-> try_sign(kp, body)]
        /\ UNCHANGED <<environment, coordinator, server, in_flight>>
        /\ UNCHANGED verifierVars

\* the server runs a handler on a request and answers
Handle(op, req, res) ==
    /\ server = "running"
    /\ coordinator' = res.coordinator
    /\ server' = res.server
    /\ response' = [op |-> op, request |-> req, result |-> res.result,
                    ops |-> res.ops]
    /\ UNCHANGED <<environment, in_flight>>
    /\ UNCHANGED verifierVars

\* the outcomes to draw for a blocking task: it runs only in a handler whose
\* check of the request passed
OutcomesAfter(checked) == IF checked = Ok THEN Outcomes ELSE {"Ok"}

StopCoordinator ==
    \E req \in UnitRequests :
        \E outcome \in OutcomesAfter(check_coordinator_request(req, "/stop")) :
            Handle("/stop", req, stop_coordinator(req, outcome))

UpdateCoordinator ==
    \E req \in UnitRequests :
        \E outcome \in
               OutcomesAfter(check_coordinator_request(req, "/update")) :
            /\ coordinator.updates < MaxUpdates
            /\ Handle("/update", req, update_coordinator(req, outcome))

\* every default_verify returns Ok (stop = 0), or the stop-th is the first
\* that does not
VerifyChunks ==
    \E req \in UnitRequests :
        \E tasks \in (IF check_coordinator_request(req, "/verify") = Ok
                      THEN Orders(coordinator.pending) ELSE {<< >>}) :
            \E stop \in 0 .. Len(tasks) :
                \E failure \in (IF stop = 0 THEN {"Err"}
                                ELSE Outcomes \ {"Ok"}) :
                    LET outcomes == [i \in 1 .. Len(tasks) |->
                                        IF i = stop THEN failure ELSE "Ok"]
                    IN  Handle("/verify", req,
                               verify_chunks(req, tasks, outcomes))

ContributeChunk ==
    \E req \in ChunkRequests :
        \E outcome \in (IF req.request.tag = "Some"
                        THEN OutcomesAfter(verify(req)) ELSE {"Ok"}) :
            Handle("/contributor/contribute_chunk", req,
                   contribute_chunk(req, outcome))

RestNext ==
    TrySign \/ StopCoordinator \/ UpdateCoordinator \/ VerifyChunks
    \/ ContributeChunk

RestSpec == RestInit /\ [][RestNext]_vars

-----------------------------------------------------------------------------
(* REST front end: properties *)

\* the message a request is signed over: the JSON of the pubkey, followed by
\* the JSON of the body when there is one
SignedMessage(pubkey, body) ==
    json_to_string(Str(pubkey))
    \o (IF body.tag = "Some" THEN json_to_string(body.val) ELSE << >>)

FromCoordinator(req) ==
    /\ Participant_new_verifier(req.pubkey) =
           environment.coordinator_verifiers[1]
    /\ Production_verify(req.pubkey, SignedMessage(req.pubkey, req.request),
                         req.signature)

CoordinatorEndpoints == {"/stop", "/update", "/verify"}

Elements(s) == {s[i] : i \in DOMAIN s}

\* C18: /stop, /update and /verify run coordinator.shutdown, the server
\* shutdown notification, coordinator.update and default_verify only for a
\* request whose pubkey is coordinator_verifiers()[0] and whose signature
\* verifies; any other request is answered UnauthorizedParticipant or
\* InvalidSignature and leaves the coordinator and the server as they were;
\* the server shutdown is notified only after shutdown returned Ok; and no
\* other step stops or updates the coordinator or shuts the server down
C18_CoordinatorOnly ==
    /\ [](response.op \in CoordinatorEndpoints =>
            /\ response.ops # << >> => FromCoordinator(response.request)
            /\ ~FromCoordinator(response.request) <=>
                   response.result.kind \in
                       {"UnauthorizedParticipant", "InvalidSignature"}
            /\ Elements(response.ops) \subseteq
                   (IF response.op = "/stop" THEN {"shutdown", "notify"}
                    ELSE IF response.op = "/update" THEN {"update"}
                    ELSE {"default_verify"})
            /\ "notify" \in Elements(response.ops) =>
                   /\ response.ops = <<"shutdown", "notify">>
                   /\ response.result = Ok
                   /\ coordinator.stopped)
    /\ [](response.op = "/contributor/contribute_chunk" =>
            Elements(response.ops) \subseteq {"try_contribute"})
    /\ [](server = "shutdown" => coordinator.stopped)
    /\ [][(response'.op \in CoordinatorEndpoints
           /\ ~FromCoordinator(response'.request)) =>
              (coordinator' = coordinator /\ server' = server)]_vars
    /\ [][(server' # server \/ coordinator'.stopped # coordinator.stopped) =>
              /\ response'.op = "/stop"
              /\ FromCoordinator(response'.request)
              /\ response'.ops = <<"shutdown", "notify">>]_vars
    /\ [][coordinator'.updates # coordinator.updates =>
              /\ response'.op = "/update"
              /\ FromCoordinator(response'.request)]_vars
    /\ [][(coordinator'.pending \subseteq coordinator.pending
           /\ coordinator'.pending # coordinator.pending) =>
              /\ response'.op = "/verify"
              /\ FromCoordinator(response'.request)]_vars

\* C18 witness: after an update the coordinator asked for, /stop answers
\* UnauthorizedParticipant to a request validly signed by a verifier that is
\* not the first one, while contributions wait for verification
C18_Witness ==
    /\ response.op = "/stop"
    /\ verify(response.request) = Ok
    /\ response.request.pubkey = PubkeyOf(NumKeys)
    /\ response.result.kind = "UnauthorizedParticipant"
    /\ coordinator.updates > 0
    /\ coordinator.pending # {}
    /\ server = "running"

-----------------------------------------------------------------------------
(* What the challenges depend on *)

\* the lists that differ from proofs in one (proof, advice) pair whose
\* advice commitment s is the same
ProofsVariants(proofs) ==
    UNION {{[proofs EXCEPT ![i] = <<p, a>>] :
               p \in ProofSet,
               a \in {adv \in AdviceSet : adv.s = proofs[i][2].s}} :
           i \in DOMAIN proofs}

\* the aggregates that differ from aggregate in opening, in s_opening or in
\* one element of c_openings
AggregateVariants(aggregate) ==
    {[aggregate EXCEPT !.opening = o] : o \in Points}
    \cup {[aggregate EXCEPT !.s_opening = o] : o \in Points}
    \cup UNION {{[aggregate EXCEPT !.c_openings[i] = <<o, v>>] :
                    o \in Points, v \in Fr} :
                i \in DOMAIN aggregate.c_openings}

\* the challenges of an add_aggregate call
AggregateChallenges(out) ==
    [z |-> out.z, w |-> out.w, random |-> out.random, rs |-> out.rs]

\* C21: the z, w, random and r_i of a returned add_aggregate call are those
\* of every call that differs from it only in a proof's r, t, rz, rzy or
\* openings, in an advice's szy or opening, or in aggregate.opening,
\* aggregate.s_opening or a c_openings element: they depend on the ordered
\* advice commitments s_i and on aggregate.c only
C21_ChallengesDependOnSAndC ==
    Returned("add_aggregate") =>
        LET proofs == last.args[1]
            aggregate == last.args[2]
            mine == AggregateChallenges(last.out)
        IN  /\ \A other \in ProofsVariants(proofs) :
                  AggregateChallenges(add_aggregate(<< >>, other, aggregate))
                      = mine
            /\ \A other \in AggregateVariants(aggregate) :
                  AggregateChallenges(add_aggregate(<< >>, proofs, other))
                      = mine

\* C21 witness: add_aggregate returned for two proofs, and a call differing
\* in one proof's r draws another y for it but, r_1 and r_2 being non-zero,
\* registers the same coefficients
C21_Witness ==
    /\ Returned("add_aggregate")
    /\ Zipped = 2
    /\ last.out.rs[1] # 0 /\ last.out.rs[2] # 0
    /\ \E other \in ProofsVariants(last.args[1]) :
          /\ other[1][1].r # last.args[1][1][1].r
          /\ other[1][2].szy # last.args[1][1][2].szy
          /\ add_aggregate(<< >>, other, last.args[2]).y_values
                 # last.out.y_values

\* the inputs that k_map has an entry for: k_map[1] belongs to the constant
\* one, the following entries to the inputs in order
Effective(inputs) ==
    SubSeq(inputs, 1, Min(Len(inputs), Len(k_map) - 1))

\* the input vectors near inputs: one position changed, one value appended,
\* the last value dropped, and the vectors the calls are made with
InputsVariants(inputs) ==
    InputSet
    \cup {[inputs EXCEPT ![i] = v] : i \in DOMAIN inputs, v \in Fr}
    \cup {Append(inputs, v) : v \in Fr}
    \cup {SubSeq(inputs, 1, Len(inputs) - 1)}

\* the challenges of an add_proof call
ProofChallenges(out) ==
    [y |-> out.y, z |-> out.z, r1 |-> out.r1, c1 |-> out.c1, c2 |-> out.c2,
     transcript |-> out.transcript]

\* C22: a returned add_proof call draws the y, z, r1, c1, c2 of every
\* add_proof call on the same proof with other inputs, its transcript holding
\* no input; its k(y) is that of the inputs k_map has entries for; and a call
\* whose inputs differ only beyond those returns as well and makes the same
\* registrations
C22_InputsOnlyThroughKy ==
    Returned("add_proof") =>
        LET proof == last.args[1]
            inputs == last.args[2]
            sxy == last.args[3]
        IN  /\ last.out.ky =
                   k_y(last.out.y, k_map, <<1 % FieldSize>> \o Effective(inputs))
            /\ \A e \in Elements(last.out.transcript) : e[1] = "sc" =>
                   e[2] \in {proof.rz, proof.rzy}
            /\ Len(SelectSeq(last.out.transcript,
                             LAMBDA e : e[1] = "sc")) = 2
            /\ \A other \in InputsVariants(inputs) :
                  LET out == add_proof(<< >>, proof, other, sxy)
                  IN  /\ ProofChallenges(out) = ProofChallenges(last.out)
                      /\ Effective(other) = Effective(inputs) =>
                             /\ ~out.aborted
                             /\ out.batch = LastRegs

\* C22 witness: add_proof returned with more inputs than k_map has entries
\* for, at a non-zero y, and a call with another surplus input and a call
\* with another effective input exist, the latter registering another t(z,y)
C22_Witness ==
    /\ Returned("add_proof")
    /\ Len(k_map) >= 2
    /\ Len(last.args[2]) > Len(k_map) - 1
    /\ last.out.y # 0
    /\ \E other \in InputsVariants(last.args[2]) :
          /\ other # last.args[2]
          /\ Effective(other) = Effective(last.args[2])
    /\ \E other \in InputsVariants(last.args[2]) :
          add_proof(<< >>, last.args[1], other, last.args[3]).batch # LastRegs

\* the last call replayed the circuit with the evaluator
Replayed ==
    \/ last.op = "add_proof" /\ last.args[3] = SxyNone
    \/ last.op = "add_aggregate"

\* C23: a verifier of a circuit whose passes all report the same outcome
\* never aborts; add_proof_with_advice and add_proof with sxy answering Some
\* never abort; a call that replays the circuit aborts exactly when that pass
\* reports an error, leaving the verifier aborted rather than live with an
\* error value: add_proof with the first claim's three registrations
\* appended, add_aggregate with the Batch as it was
C23_SynthesisAborts ==
    /\ circuit.failFrom = 0 => status # "aborted"
    /\ status = "aborted" <=>
           /\ last.op \in {"add_proof", "add_aggregate"}
           /\ last.out.aborted
    /\ last.op \in {"add_proof", "add_proof_with_advice", "add_aggregate"} =>
           /\ last.out.aborted <=> Replayed /\ SynthesisFails(circuit, passes)
           /\ ~Replayed => last.out.synth = 0
    /\ last.op = "add_proof" /\ last.out.aborted =>
           /\ Len(batch) = last.base + 3
           /\ LastRegs = first_claim(<< >>, last.args[1], last.out.c1,
                                     last.out.z, last.out.y)
    /\ last.op = "add_aggregate" /\ last.out.aborted =>
           Len(batch) = last.base

\* C23 witness: after a call that returned, add_proof with sxy answering
\* None aborted on a pass that reports an error, its first claim registered
C23_Witness ==
    /\ status = "aborted"
    /\ last.op = "add_proof"
    /\ last.args[3] = SxyNone
    /\ last.base > 0
    /\ Len(batch) = last.base + 3
    /\ passes >= 2

-----------------------------------------------------------------------------
(* REST front end: the contributor endpoints.  The parameters are not       *)
(* chunked: a round has one chunk, chunk 0, and one contributor.  A          *)
(* LockedLocators, a PostChunkRequest and a ContributionInfo are the id of   *)
(* the chunk they are about.  The files of the storage are                   *)
(* <<"contribution", chunk>>, <<"contribution_file_signature", chunk>>,      *)
(* <<"contribution_info", contributor>> and                                  *)
(* <<"contribution_summary", contributor>>.                                  *)

Pending == [kind |-> "Pending"]
UnknownContributor(pubkey) == [kind |-> "UnknownContributor", pubkey |-> pubkey]
UnknownTask(task) == [kind |-> "UnknownTask", task |-> task]
ContributorStatus(s) == [kind |-> "Ok", status |-> s]

\* Coordinator::is_queue_contributor, is_current_contributor and
\* is_finished_contributor
Coordinator_is_queue_contributor(c, participant) ==
    \E i \in DOMAIN c.queue : c.queue[i] = participant
Coordinator_is_current_contributor(c, participant) == participant \in c.current
Coordinator_is_finished_contributor(c, participant) ==
    participant \in c.finished

\* Coordinator::add_to_queue
Coordinator_add_to_queue(c, participant, outcome) ==
    IF outcome = "Ok" THEN [c EXCEPT !.queue = Append(@, participant)] ELSE c

\* the writes to the storage
Coordinator_write(c, file, outcome) ==
    IF outcome = "Ok" THEN [c EXCEPT !.files = @ \cup {file}] ELSE c

\* task::spawn_blocking(operation).await? matched on its result: the answer
\* after the coordinator operations ops, the last of which ended with outcome
spawn_blocking(ops, c, outcome, ok) ==
    IF outcome = "Panicked" THEN Answer(RuntimeError, ops, c, server)
    ELSE IF outcome = "Err" THEN Answer(CoordinatorError, ops, c, server)
    ELSE Answer(ok, ops, c, server)

\* POST /contributor/join_queue with the coordinator taken before the
\* signature is checked
join_queue_locks_first(req, outcome) ==
    LET contributor == Participant_new_contributor(req.pubkey)
    IN  spawn_blocking(<<"add_to_queue">>,
                       Coordinator_add_to_queue(coordinator, contributor,
                                                outcome),
                       outcome, IF verify(req) = Ok THEN Ok ELSE verify(req))

\* POST /contributor/join_queue
join_queue(req, outcome) ==
    LET checked == verify(req)
        contributor == Participant_new_contributor(req.pubkey)
    IN  IF checked # Ok THEN Answer(checked, << >>, coordinator, server)
        ELSE spawn_blocking(<<"add_to_queue">>,
                            Coordinator_add_to_queue(coordinator, contributor,
                                                     outcome),
                            outcome, Ok)

\* POST /contributor/lock_chunk
lock_chunk(req, outcome) ==
    LET checked == verify(req)
    IN  IF checked # Ok THEN Answer(checked, << >>, coordinator, server)
        ELSE spawn_blocking(<<"try_lock">>, coordinator, outcome, Ok)

\* GET /download/chunk
get_chunk(req, outcome) ==
    LET checked == verify(req)
        contributor == Participant_new_contributor(req.pubkey)
    IN  IF checked # Ok THEN Answer(checked, << >>, coordinator, server)
        ELSE IF req.request.tag = "None"
        THEN Answer(Panic, << >>, coordinator, server)
        ELSE LET task == Task_new(req.request.val.num, 1)
                 ops == <<"current_participant_info">>
             IN  IF outcome = "Panicked"
                 THEN Answer(RuntimeError, ops, coordinator, server)
                 ELSE IF ~Coordinator_is_current_contributor(coordinator,
                                                             contributor)
                 THEN Answer(UnknownContributor(req.pubkey), ops, coordinator,
                             server)
                 ELSE IF task # Task_new(0, 1)
                 THEN Answer(UnknownTask(task), ops, coordinator, server)
                 ELSE Answer(Ok, ops, coordinator, server)

\* GET /contributor/challenge
get_challenge(req, outcome) ==
    LET checked == verify(req)
    IN  IF checked # Ok THEN Answer(checked, << >>, coordinator, server)
        ELSE IF req.request.tag = "None"
        THEN Answer(Panic, << >>, coordinator, server)
        ELSE spawn_blocking(<<"get_challenge">>, coordinator, outcome, Ok)

\* POST /contributor/heartbeat
heartbeat(req, outcome) ==
    LET checked == verify(req)
    IN  IF checked # Ok THEN Answer(checked, << >>, coordinator, server)
        ELSE spawn_blocking(<<"heartbeat">>, coordinator, outcome, Ok)

\* GET /contributor/get_tasks_left
get_tasks_left(req, outcome) ==
    LET checked == verify(req)
        contributor == Participant_new_contributor(req.pubkey)
        ops == <<"current_participant_info">>
    IN  IF checked # Ok THEN Answer(checked, << >>, coordinator, server)
        ELSE IF outcome = "Panicked"
        THEN Answer(RuntimeError, ops, coordinator, server)
        ELSE IF Coordinator_is_current_contributor(coordinator, contributor)
        THEN Answer(Ok, ops, coordinator, server)
        ELSE Answer(UnknownContributor(req.pubkey), ops, coordinator, server)

\* GET /contributor/queue_status
get_contributor_queue_status(req, outcome) ==
    LET checked == verify(req)
        contrib == Participant_new_contributor(req.pubkey)
        first == <<"is_current_contributor">>
        second == first \o <<"state", "is_queue_contributor">>
        third == second \o <<"is_finished_contributor">>
    IN  IF checked # Ok THEN Answer(checked, << >>, coordinator, server)
        ELSE IF outcome = "Panicked"
        THEN Answer(RuntimeError, first, coordinator, server)
        ELSE IF Coordinator_is_current_contributor(coordinator, contrib)
        THEN Answer(ContributorStatus("Round"), first, coordinator, server)
        ELSE IF Coordinator_is_queue_contributor(coordinator, contrib)
        THEN Answer(ContributorStatus("Queue"), second, coordinator, server)
        ELSE IF Coordinator_is_finished_contributor(coordinator, contrib)
        THEN Answer(ContributorStatus("Finished"), third, coordinator, server)
        ELSE Answer(ContributorStatus("Other"), third, coordinator, server)


\* POST /upload/chunk up to the first write: the handler goes on to take
\* the lock again when write_contribution returned Ok
post_contribution_chunk(req, outcome) ==
    LET checked == verify(req)
    IN  IF checked # Ok THEN Answer(checked, << >>, coordinator, server)
        ELSE IF req.request.tag = "None"
        THEN Answer(Panic, << >>, coordinator, server)
        ELSE spawn_blocking(
                 <<"write_contribution">>,
                 Coordinator_write(coordinator,
                                   <<"contribution", req.request.val.num>>,
                                   outcome),
                 outcome, Pending)

\* POST /upload/chunk from the second lock on
post_contribution_chunk_signature(req, ops, outcome) ==
    spawn_blocking(
        Append(ops, "write_contribution_file_signature"),
        Coordinator_write(coordinator,
                          <<"contribution_file_signature",
                            req.request.val.num>>,
                          outcome),
        outcome, Ok)

\* the check of post_contribution_info under the read lock
is_registered(c, contributor) ==
    \/ Coordinator_is_current_contributor(c, contributor)
    \/ Coordinator_is_finished_contributor(c, contributor)

\* POST /contributor/contribution_info up to the end of the check
post_contribution_info(req, outcome) ==
    LET checked == verify(req)
        contributor == Participant_new_contributor(req.pubkey)
        ops == IF Coordinator_is_current_contributor(coordinator, contributor)
               THEN <<"is_current_contributor">>
               ELSE <<"is_current_contributor", "is_finished_contributor">>
    IN  IF checked # Ok THEN Answer(checked, << >>, coordinator, server)
        ELSE IF outcome = "Panicked"
        THEN Answer(RuntimeError, <<"is_current_contributor">>, coordinator,
                    server)
        ELSE IF ~is_registered(coordinator, contributor)
        THEN Answer(UnauthorizedParticipant(
                        contributor,
                        "/contributor/contribution_info"),
                    ops, coordinator, server)
        ELSE IF req.request.tag = "None"
        THEN Answer(Panic, ops, coordinator, server)
        ELSE Answer(Pending, ops, coordinator, server)

\* POST /contributor/contribution_info: the write of the info
post_contribution_info_write(req, ops, outcome) ==
    LET contributor == Participant_new_contributor(req.pubkey)
    IN  spawn_blocking(
            Append(ops, "write_contribution_info"),
            Coordinator_write(coordinator,
                              <<"contribution_info", contributor>>, outcome),
            outcome, Pending)

\* POST /contributor/contribution_info: the summary
post_contribution_info_summary(req, ops, outcome) ==
    LET contributor == Participant_new_contributor(req.pubkey)
    IN  spawn_blocking(
            Append(ops, "update_contribution_summary"),
            Coordinator_write(coordinator,
                              <<"contribution_summary", contributor>>,
                              outcome),
            outcome, Ok)

-----------------------------------------------------------------------------
(* REST front end: the contributors' requests, and the state machine of     *)
(* the contributor endpoints.  A handler that takes the coordinator lock    *)
(* more than once is in flight between two locks; the handlers of other     *)
(* requests run meanwhile.                                                   *)

\* the requests a contributor endpoint may receive for the given bodies:
\* those a client signed with its own key pair, and those with the signature
\* replaced afterwards
ContributorRequests(bodies) ==
    Signed(bodies)
    \cup {[r EXCEPT !.signature = GarbageSignature] : r \in Signed(bodies)}

RoundBodies == {None, Some(U64(0))}
RoundRequests == ContributorRequests(RoundBodies)

\* a SignedRequest<()> arrives as JSON, where Some(()) and None are both
\* null: the handler receives it without a body
PlainRequests == ContributorRequests({None})

\* the handler answers, or waits for the lock again
Begin(op, req, res) ==
    /\ server = "running"
    /\ res.result = Pending => in_flight = NoRequest
    /\ coordinator' = res.coordinator
    /\ server' = res.server
    /\ response' = [op |-> op, request |-> req, result |-> res.result,
                    ops |-> res.ops]
    /\ in_flight' = IF res.result = Pending
                    THEN [op |-> op, request |-> req, ops |-> res.ops]
                    ELSE in_flight
    /\ UNCHANGED environment
    /\ UNCHANGED verifierVars

\* the handler in flight got the lock again
Resume(res) ==
    /\ server = "running"
    /\ coordinator' = res.coordinator
    /\ server' = res.server
    /\ response' = [op |-> in_flight.op, request |-> in_flight.request,
                    result |-> res.result, ops |-> res.ops]
    /\ in_flight' = IF res.result = Pending
                    THEN [in_flight EXCEPT !.ops = res.ops]
                    ELSE NoRequest
    /\ UNCHANGED environment
    /\ UNCHANGED verifierVars

JoinQueue ==
    \E req \in PlainRequests :
        LET contributor == Participant_new_contributor(req.pubkey)
            known == \/ Coordinator_is_queue_contributor(coordinator,
                                                         contributor)
                     \/ is_registered(coordinator, contributor)
        IN  \E outcome \in (IF verify(req) = Ok /\ known
                            THEN Outcomes \ {"Ok"}
                            ELSE OutcomesAfter(verify(req))) :
                Handle("/contributor/join_queue", req,
                       join_queue(req, outcome))

LockChunk ==
    \E req \in PlainRequests :
        \E outcome \in OutcomesAfter(verify(req)) :
            Handle("/contributor/lock_chunk", req, lock_chunk(req, outcome))

\* the outcomes of a task that reads the coordinator: it cannot return Err
ReadOutcomesAfter(checked) == OutcomesAfter(checked) \ {"Err"}

\* the outcomes of the task of a handler that wants the body of req
BodyOutcomes(req) ==
    IF req.request.tag = "Some" THEN OutcomesAfter(verify(req)) ELSE {"Ok"}

GetChunk ==
    \E req \in RoundRequests :
        \E outcome \in BodyOutcomes(req) \ {"Err"} :
            Handle("/download/chunk", req, get_chunk(req, outcome))

GetChallenge ==
    \E req \in RoundRequests :
        \E outcome \in BodyOutcomes(req) :
            Handle("/contributor/challenge", req, get_challenge(req, outcome))

PostContributionChunk ==
    \E req \in RoundRequests :
        \E outcome \in BodyOutcomes(req) :
            Begin("/upload/chunk", req, post_contribution_chunk(req, outcome))

PostContributionChunkSignature ==
    /\ in_flight.op = "/upload/chunk"
    /\ \E outcome \in Outcomes :
           Resume(post_contribution_chunk_signature(in_flight.request,
                                                    in_flight.ops, outcome))

ContributeRoundChunk ==
    \E req \in RoundRequests :
        \E outcome \in BodyOutcomes(req) :
            Handle("/contributor/contribute_chunk", req,
                   contribute_chunk(req, outcome))

Heartbeat ==
    \E req \in PlainRequests :
        \E outcome \in OutcomesAfter(verify(req)) :
            Handle("/contributor/heartbeat", req, heartbeat(req, outcome))

GetTasksLeft ==
    \E req \in PlainRequests :
        \E outcome \in ReadOutcomesAfter(verify(req)) :
            Handle("/contributor/get_tasks_left", req,
                   get_tasks_left(req, outcome))

GetContributorQueueStatus ==
    \E req \in PlainRequests :
        \E outcome \in ReadOutcomesAfter(verify(req)) :
            Handle("/contributor/queue_status", req,
                   get_contributor_queue_status(req, outcome))

PostContributionInfo ==
    \E req \in RoundRequests :
        \E outcome \in ReadOutcomesAfter(verify(req)) :
            Begin("/contributor/contribution_info", req,
                  post_contribution_info(req, outcome))

PostContributionInfoWrite ==
    /\ in_flight.op = "/contributor/contribution_info"
    /\ "write_contribution_info" \notin Elements(in_flight.ops)
    /\ \E outcome \in Outcomes :
           Resume(post_contribution_info_write(in_flight.request,
                                               in_flight.ops, outcome))

PostContributionInfoSummary ==
    /\ in_flight.op = "/contributor/contribution_info"
    /\ "write_contribution_info" \in Elements(in_flight.ops)
    /\ \E outcome \in Outcomes :
           Resume(post_contribution_info_summary(in_flight.request,
                                                 in_flight.ops, outcome))

\* the coordinator's own periodic update
CoordinatorUpdate ==
    /\ server = "running"
    /\ coordinator.updates < MaxUpdates
    /\ \E outcome \in Outcomes :
           LET res == perform_coordinator_update(outcome)
           IN  /\ coordinator' = res.coordinator
               /\ response' = [op |-> "update", result |-> res.result,
                               ops |-> res.ops]
    /\ UNCHANGED <<environment, server, in_flight>>
    /\ UNCHANGED verifierVars

ContributorNext ==
    JoinQueue \/ LockChunk \/ GetChunk \/ GetChallenge
    \/ PostContributionChunk \/ PostContributionChunkSignature
    \/ ContributeRoundChunk \/ Heartbeat \/ GetTasksLeft
    \/ GetContributorQueueStatus \/ PostContributionInfo
    \/ PostContributionInfoWrite \/ PostContributionInfoSummary
    \/ CoordinatorUpdate

ContributorSpec == RestInit /\ [][ContributorNext]_vars

-----------------------------------------------------------------------------
(* REST front end: properties of the contributor endpoints *)

InfoEndpoint == "/contributor/contribution_info"

\* the files of contributor's info
InfoFiles(contributor) ==
    {<<"contribution_info", contributor>>,
     <<"contribution_summary", contributor>>}

\* the handler of response started on its request: none of the writes of a
\* later lock is among its operations
Started(r) ==
    Elements(r.ops) \cap {"write_contribution_info",
                          "update_contribution_summary",
                          "write_contribution_file_signature"} = {}

\* C24: a contribution info or summary is written for a contributor only
\* while it is the current contributor, and post_contribution_info answers
\* UnauthorizedParticipant, writing nothing, to a validly signed request
\* with a body of any signer that is not the current contributor, unless the
\* task of the check itself is lost
C24_OnlyCurrentContributor ==
    /\ [][\A k \in Keys :
            LET contributor == Participant_new_contributor(PubkeyOf(k))
            IN  (coordinator'.files \ coordinator.files)
                    \cap InfoFiles(contributor) # {}
                => Coordinator_is_current_contributor(coordinator,
                                                      contributor)]_vars
    /\ [][(/\ response'.op = InfoEndpoint
           /\ Started(response')
           /\ verify(response'.request) = Ok
           /\ response'.request.request.tag = "Some"
           /\ response'.result # RuntimeError
           /\ ~Coordinator_is_current_contributor(
                   coordinator,
                   Participant_new_contributor(response'.request.pubkey)))
          => /\ response'.result.kind = "UnauthorizedParticipant"
             /\ coordinator' = coordinator
             /\ in_flight' = in_flight]_vars


UploadEndpoint == "/upload/chunk"

\* C25: the signature of a contribution is written only by a handler whose
\* write_contribution returned Ok; while that handler is between its two
\* writes no other handler runs a coordinator operation; and once the
\* handler has answered, no contribution is in the storage without its
\* signature
C25_AtomicUpload ==
    /\ [](response.op = UploadEndpoint
          /\ "write_contribution_file_signature" \in Elements(response.ops)
          => response.ops[1] = "write_contribution")
    /\ [][in_flight.op = UploadEndpoint =>
              \/ response'.op = UploadEndpoint /\ ~Started(response')
              \/ response'.ops = << >>]_vars
    /\ [](in_flight.op # UploadEndpoint =>
              \A chunk \in 0 .. MaxChunk :
                  <<"contribution", chunk>> \in coordinator.files
                  => <<"contribution_file_signature", chunk>>
                         \in coordinator.files)

BodyEndpoints ==
    {"/download/chunk", "/contributor/challenge", UploadEndpoint,
     "/contributor/contribute_chunk", InfoEndpoint}

ResponseErrors ==
    {"InvalidSignature", "SigningError", "UnauthorizedParticipant",
     "ShutdownError", "CoordinatorError", "VerificationError", "RuntimeError",
     "UnknownContributor", "UnknownTask"}

\* C27: get_chunk, get_challenge, post_contribution_chunk, contribute_chunk
\* and post_contribution_info answer a validly signed request without a body
\* with a ResponseError, and leave the coordinator as it was
C27_AbsentBodyAnswered ==
    /\ [](response.op \in BodyEndpoints
          /\ verify(response.request) = Ok
          /\ response.request.request.tag = "None"
          => response.result.kind \in ResponseErrors)
    /\ [][(/\ response'.op \in BodyEndpoints
           /\ verify(response'.request) = Ok
           /\ response'.request.request.tag = "None")
          => coordinator' = coordinator]_vars


ContributorEndpoints ==
    {"/contributor/join_queue", "/contributor/lock_chunk", "/download/chunk",
     "/contributor/challenge", UploadEndpoint,
     "/contributor/contribute_chunk", "/contributor/heartbeat",
     "/contributor/get_tasks_left", "/contributor/queue_status", InfoEndpoint}

\* C26: each of the ten contributor endpoints answers InvalidSignature to a
\* request whose signature does not verify, and to no other request, having
\* run no coordinator operation; the step leaves the coordinator, the server
\* and the handler in flight as they were
C26_InvalidSignatureFirst ==
    /\ [](response.op \in ContributorEndpoints =>
            /\ verify(response.request) # Ok <=>
                   response.result = InvalidSignature
            /\ verify(response.request) # Ok => response.ops = << >>)
    /\ [][(/\ response'.op \in ContributorEndpoints
           /\ verify(response'.request) # Ok)
          => /\ coordinator' = coordinator
             /\ server' = server
             /\ in_flight' = in_flight]_vars

\* C26 witness: join_queue answered InvalidSignature to a request with a
\* signature no key made, of a contributor that is nowhere in the ceremony,
\* while another contributor finished its round and an upload is in flight
C26_Witness ==
    /\ response.op = "/contributor/join_queue"
    /\ response.result = InvalidSignature
    /\ response.ops = << >>
    /\ response.request.signature = GarbageSignature
    /\ LET contributor == Participant_new_contributor(response.request.pubkey)
       IN  /\ ~Coordinator_is_queue_contributor(coordinator, contributor)
           /\ ~is_registered(coordinator, contributor)
    /\ coordinator.finished # {}
    /\ in_flight.op = UploadEndpoint

====
